---- MODULE Spec2Model ----
(***************************************************************************)
(* Model of the Telegram inbound-message debouncer (telegramBuffer) and of *)
(* the escalation state machine (maybeEscalate and the delayed director    *)
(* check) of the chat service.                                             *)
(*                                                                         *)
(* The debouncer counts time in seconds and keeps no absolute clock in     *)
(* the model: every buffer carries its age (time.Since(buf.started),       *)
(* saturating at telegramMaxWait, the only value it is compared with) and  *)
(* every armed timer the time left until it fires.  The escalation part    *)
(* has the clock now, counted in ticks of 1/TicksPerSecond seconds.        *)
(***************************************************************************)
EXTENDS Integers, Sequences, FiniteSets, Bags, TLC

\* ------------------------------------------------------------------------
\* Bounds of the model
\* ------------------------------------------------------------------------
NumSessions == 2      \* sessions (chats) in the wide exploration
NumCallers == 2       \* concurrent webhook goroutines in the wide exploration
MaxAdds == 2          \* AddText/AddMedia calls in the wide exploration
DeepAdds == 6         \* calls in the deep exploration: one caller, one session
LiveAdds == 4         \* calls in the exploration under fairness: one caller, one session
TickSeconds == 6      \* seconds per clock step
MaxTurns == 2         \* turns of the escalation session
NumSlots == 2         \* turns of the session that may run concurrently
MaxReplies == 1       \* human-admin replies written to the session
MaxMinutes == 2       \* minutes of wall clock explored
SubSteps == 1         \* half-second steps explored after each whole minute
TicksPerSecond == 2   \* clock ticks per second (created_at is sub-second)
ClarifyThreshold == 2 \* rule.Manager.Trigger.MaxConsecutiveClarifyQuestions
TimeoutMinutes == 1   \* rule.Director.TimeoutMinutes
MaxProducts == 3      \* products handed to RankProductsByBehavior
MaxMsgLen == 2        \* characters of a chat message

\* ------------------------------------------------------------------------
\* Program constants (telegram.go)
\* ------------------------------------------------------------------------
telegramIdleWindow == 6
telegramMaxWait == 30

\* handleMessage reads 30 rows of history, the delayed director check 50
HistoryLimit == 30
DirectorHistoryLimit == 50

Sessions == 1..NumSessions
Callers == 1..NumCallers
UserIDs == {"u"}

VARIABLES
    sessions,    \* telegramBuffer.sessions: session -> buffer (present or not)
    mu,          \* telegramBuffer.mu: <<"free",0>>, <<"add",c>> or <<"flush",s>>
    pc,          \* position of each webhook goroutine calling AddText/AddMedia
    arg,         \* arguments of the call each webhook goroutine is making
    pend,        \* the detached telegramPending a caller is about to hand to onFlush
    flushWait,   \* per session: timer goroutines that entered flush() and wait for mu
    running,     \* bag of detached buffers of timer goroutines whose onFlush is executing
    delivered,   \* per item: how often onFlush was handed a buffer holding it
    nextId,      \* number of the next text/media item
    lastAdd,     \* per session: the last AddText/AddMedia executed (observation)
    scope,       \* "wide": MaxAdds calls by any caller on any session;
                 \* "deep": DeepAdds calls by caller 1 on session 1;
                 \* "live": LiveAdds calls by caller 1 on session 1;
                 \* "hook": MaxAdds calls made by the webhook's dispatch switch
    now,         \* the wall clock of the chat service, in half seconds
    token,       \* Cfg.TelegramBotToken is set
    prior,       \* chat_messages: plain user rows at the head of the session
    msgs,        \* chat_messages: the rows of the session after them, by created_at
    turn,        \* the handleMessage goroutines of the session
    started,     \* turns started so far
    timers,      \* bag of pending time.AfterFunc director checks
    sent,        \* log of the messages accepted by the messaging gateway
    req,         \* handleMessage: the ChatRequest being served
    flag,        \* chat_sessions.is_human_mode of the request's session
    stage,       \* handleMessage: position of the request goroutine
    loc,         \* handleMessage: its local variables
    calls,       \* log of the collaborator calls the request made, in order
    rows,        \* log of the insertChatMessages calls the request made
    resp,        \* what the request wrote to the http.ResponseWriter
    cands,       \* RankProductsByBehavior: the products argument
    behavior,    \* RankProductsByBehavior: the behavior argument
    ranked,      \* RankProductsByBehavior: the value returned
    args,        \* the arguments of a call of one of the retrieval helpers
    result,      \* what that call returned
    table,       \* chat_messages: the manager and human-admin rows, by id
    nextRowId,   \* chat_messages: the id the next stored row gets
    humanMode,   \* chat_sessions.is_human_mode of each session
    lastID,      \* startManagerRelay: lastID of the relay goroutine
    relayPc,     \* startManagerRelay: "off", "init", "tick" or "loop"
    batch,       \* startManagerRelay: the fetched rows not yet handled
    forwards,    \* the sendTelegramText calls of the relay, in order
    polled       \* the ids fetchManagerMessagesSince returned, in order

dvars == <<sessions, mu, pc, arg, pend, flushWait, running, delivered, nextId, lastAdd, scope>>

evars == <<now, token, prior, msgs, turn, started, timers, sent>>

pvars == <<req, flag, stage, loc, calls, rows, resp>>

rvars == <<cands, behavior, ranked>>
fvars == <<args, result>>

mvars == <<table, nextRowId, humanMode, lastID, relayPc, batch, forwards, polled>>

vars == <<dvars, evars, pvars, rvars, fvars, mvars>>

\* ------------------------------------------------------------------------
\* Values
\* ------------------------------------------------------------------------
Min(a, b) == IF a < b THEN a ELSE b
Max(a, b) == IF a > b THEN a ELSE b

FreeMu == <<"free", 0>>

NoTimer == [st |-> "nil", left |-> 0]
ArmedTimer == [st |-> "armed", left |-> telegramIdleWindow]
FiredTimer == [st |-> "fired", left |-> 0]

\* telegramPending{} : the zero value, sessionID == ""
NoPending == [sessionID |-> 0, userID |-> "", texts |-> <<>>, media |-> 0]

\* a nil *telegramSessionBuffer
NoBuf == [present |-> FALSE, pending |-> NoPending, timer |-> NoTimer, age |-> 0]

NoArg == [kind |-> "none", s |-> 0, id |-> 0, userID |-> ""]

NoLast == [id |-> 0, kind |-> "none", ago |-> 0, capped |-> FALSE]

\* &telegramSessionBuffer{pending: telegramPending{sessionID, userID}, started: time.Now()}
NewBuf(s, userID) ==
    [present |-> TRUE,
     pending |-> [sessionID |-> s, userID |-> userID, texts |-> <<>>, media |-> 0],
     timer |-> NoTimer,
     age |-> 0]

\* if buf.pending.userID == "" { buf.pending.userID = userID }
FillUser(buf, userID) ==
    IF buf.pending.userID = ""
    THEN [buf EXCEPT !.pending.userID = userID]
    ELSE buf

\* ------------------------------------------------------------------------
\* telegramBuffer: the operations under the mutex
\* ------------------------------------------------------------------------

\* detachLocked with the delete forgotten (the entry stays in the registry)
detachLocked_keep(m, s) ==
    IF ~m[s].present
    THEN [pending |-> NoPending, sessions |-> m]
    ELSE [pending |-> m[s].pending,
          sessions |-> [m EXCEPT ![s].timer = NoTimer]]

\* detachLocked: remove the session's buffer from the registry, stop its
\* timer and return its pending value; the zero telegramPending if absent
detachLocked(m, s) ==
    IF ~m[s].present
    THEN [pending |-> NoPending, sessions |-> m]
    ELSE [pending |-> m[s].pending,
          sessions |-> [m EXCEPT ![s] = NoBuf]]

\* resetTimerLocked that stops a running timer without arming a new one
resetTimerLocked_stoponly(buf) ==
    IF buf.timer.st = "nil" THEN [buf EXCEPT !.timer = ArmedTimer]
    ELSE [buf EXCEPT !.timer = NoTimer]

\* resetTimerLocked: Stop the old timer (no effect on one that already
\* fired) and arm a new one of telegramIdleWindow
resetTimerLocked(buf) == [buf EXCEPT !.timer = ArmedTimer]

\* AddText that always re-arms the idle timer (no max-wait cap)
AddTextLocked_nocap(m, a) ==
    LET buf0 == IF m[a.s].present THEN m[a.s] ELSE NewBuf(a.s, a.userID)
        buf1 == FillUser(buf0, a.userID)
        buf2 == [buf1 EXCEPT !.pending.texts = Append(@, a.id)]
    IN  [pending |-> NoPending, flush |-> FALSE,
         sessions |-> [m EXCEPT ![a.s] = resetTimerLocked(buf2)]]

\* AddText between b.mu.Lock() and b.mu.Unlock(): the registry afterwards,
\* the detached pending and whether onFlush is called
AddTextLocked(m, a) ==
    LET buf0 == IF m[a.s].present THEN m[a.s] ELSE NewBuf(a.s, a.userID)
        buf1 == FillUser(buf0, a.userID)
        buf2 == [buf1 EXCEPT !.pending.texts = Append(@, a.id)]
        m2 == [m EXCEPT ![a.s] = buf2]
    IN  IF buf2.age >= telegramMaxWait
        THEN LET d == detachLocked(m2, a.s)
             IN  [pending |-> d.pending, flush |-> TRUE, sessions |-> d.sessions]
        ELSE [pending |-> NoPending, flush |-> FALSE,
              sessions |-> [m2 EXCEPT ![a.s] = resetTimerLocked(buf2)]]

\* AddMedia that does not flush a buffer whose media slot is taken
AddMediaLocked_overwrite(m, a) ==
    LET buf0 == IF m[a.s].present THEN m[a.s] ELSE NewBuf(a.s, a.userID)
        buf1 == FillUser(buf0, a.userID)
        buf3 == [buf1 EXCEPT !.pending.media = a.id]
        m3 == [m EXCEPT ![a.s] = buf3]
    IN  IF buf3.age >= telegramMaxWait
        THEN LET d2 == detachLocked(m3, a.s)
             IN  [pending |-> d2.pending, flush |-> d2.pending.sessionID # 0,
                  sessions |-> d2.sessions]
        ELSE [pending |-> NoPending, flush |-> FALSE,
              sessions |-> [m3 EXCEPT ![a.s] = resetTimerLocked(buf3)]]

\* AddMedia that always re-arms the idle timer (no max-wait cap)
AddMediaLocked_nocap(m, a) ==
    LET buf0 == IF m[a.s].present THEN m[a.s] ELSE NewBuf(a.s, a.userID)
        buf1 == FillUser(buf0, a.userID)
        m1 == [m EXCEPT ![a.s] = buf1]
        d1 == IF buf1.pending.media # 0
              THEN detachLocked(m1, a.s)
              ELSE [pending |-> NoPending, sessions |-> m1]
        buf2 == IF d1.sessions[a.s].present
                THEN d1.sessions[a.s]
                ELSE NewBuf(a.s, a.userID)
        buf3 == [buf2 EXCEPT !.pending.media = a.id]
        m3 == [d1.sessions EXCEPT ![a.s] = buf3]
    IN  [pending |-> d1.pending, flush |-> d1.pending.sessionID # 0,
         sessions |-> [m3 EXCEPT ![a.s] = resetTimerLocked(buf3)]]

\* AddMedia between b.mu.Lock() and b.mu.Unlock()
AddMediaLocked(m, a) ==
    LET buf0 == IF m[a.s].present THEN m[a.s] ELSE NewBuf(a.s, a.userID)
        buf1 == FillUser(buf0, a.userID)
        m1 == [m EXCEPT ![a.s] = buf1]
        d1 == IF buf1.pending.media # 0
              THEN detachLocked(m1, a.s)
              ELSE [pending |-> NoPending, sessions |-> m1]
        buf2 == IF d1.sessions[a.s].present
                THEN d1.sessions[a.s]
                ELSE NewBuf(a.s, a.userID)
        buf3 == [buf2 EXCEPT !.pending.media = a.id]
        m3 == [d1.sessions EXCEPT ![a.s] = buf3]
    IN  IF buf3.age >= telegramMaxWait
        THEN LET d2 == detachLocked(m3, a.s)
             IN  [pending |-> d2.pending, flush |-> d2.pending.sessionID # 0,
                  sessions |-> d2.sessions]
        ELSE [pending |-> d1.pending, flush |-> d1.pending.sessionID # 0,
              sessions |-> [m3 EXCEPT ![a.s] = resetTimerLocked(buf3)]]

\* the mutex is kept through onFlush (an Unlock deferred to the return)
UnlockBeforeCallback_deferred(holder) == holder

\* b.mu.Unlock() on the line before onFlush(pending): the mutex while the
\* callback runs
UnlockBeforeCallback(holder) == FreeMu

\* ------------------------------------------------------------------------
\* processTelegramPending
\* ------------------------------------------------------------------------
NL == 0
SP == -1

\* the characters of a text item: texts are distinct non-blank strings
Body(id) == <<id>>

RECURSIVE Join(_)
\* strings.Join(p.texts, "\n")
Join(ts) ==
    IF Len(ts) = 0 THEN <<>>
    ELSE IF Len(ts) = 1 THEN Body(ts[1])
    ELSE Body(ts[1]) \o <<NL>> \o Join(Tail(ts))

IsSpace(ch) == ch = NL \/ ch = SP

RECURSIVE TrimLeft(_)
TrimLeft(str) ==
    IF Len(str) > 0 /\ IsSpace(str[1]) THEN TrimLeft(Tail(str)) ELSE str

RECURSIVE TrimRight(_)
TrimRight(str) ==
    IF Len(str) > 0 /\ IsSpace(str[Len(str)])
    THEN TrimRight(SubSeq(str, 1, Len(str) - 1))
    ELSE str

\* strings.TrimSpace
TrimSpace(str) == TrimRight(TrimLeft(str))

\* processTelegramPending: what one onFlush invocation dispatches
processTelegramPending(p) ==
    LET combined == TrimSpace(Join(p.texts))
    IN  IF p.media # 0
        THEN [p |-> p, dispatch |-> "media", text |-> combined]
        ELSE IF Len(p.texts) > 0 /\ combined # <<>>
        THEN [p |-> p, dispatch |-> "text", text |-> combined]
        ELSE [p |-> p, dispatch |-> "none", text |-> <<>>]

\* ------------------------------------------------------------------------
\* Debouncer state machine
\* ------------------------------------------------------------------------
Items == 1..Max(Max(MaxAdds, DeepAdds), LiveAdds)

\* a handleMessage goroutine that is not running
IdleTurn == [pc |-> "idle", hist |-> <<>>, clar |-> FALSE, ruled |-> FALSE,
             res |-> <<>>]

\* no request is being served
NoReq == [msg |-> <<>>, session |-> FALSE, relay |-> FALSE, quotePDF |-> FALSE]
NoLoc == [behavior |-> FALSE, quote |-> FALSE, need |-> FALSE, products |-> 0,
          rule |-> FALSE, answer |-> ""]
NoResp == [status |-> 0, kind |-> "", answer |-> ""]
PipelineIdle ==
    /\ req = NoReq
    /\ flag = FALSE
    /\ stage = "off"
    /\ loc = NoLoc
    /\ calls = <<>>
    /\ rows = <<>>
    /\ resp = NoResp

\* RankProductsByBehavior is not called
NoRanked == [done |-> FALSE, out |-> <<>>]
RankIdle ==
    /\ cands = <<>>
    /\ behavior = <<>>
    /\ ranked = NoRanked

\* no helper call is being made
NoCall == [fn |-> "none"]
HelperIdle == args = NoCall /\ result = NoCall

\* the session ids of the stored manager rows: a channel session "tg:7", and
\* two ids without the prefix
RelaySessions == {<<"t", "g", ":", "7">>, <<"t", "g", "7">>, <<"w", "e", "b">>}

\* the relay goroutine was not started
RelayIdle ==
    /\ table = <<>>
    /\ nextRowId = 1
    /\ humanMode = [s \in RelaySessions |-> FALSE]
    /\ lastID = 0
    /\ relayPc = "off"
    /\ batch = <<>>
    /\ forwards = <<>>
    /\ polled = <<>>

\* no chat turn is under way and the session has no rows
EscalationIdle ==
    /\ now = 0
    /\ token = TRUE
    /\ prior = 0
    /\ msgs = <<>>
    /\ turn = [t \in 1..NumSlots |-> IdleTurn]
    /\ started = 0
    /\ timers = EmptyBag
    /\ sent = <<>>

\* the calls the exploration still admits
Admits(c, s) ==
    CASE scope = "wide" -> nextId <= MaxAdds
      [] scope = "deep" -> c = 1 /\ s = 1 /\ nextId <= DeepAdds
      [] scope = "live" -> c = 1 /\ s = 1 /\ nextId <= LiveAdds
      [] scope = "hook" -> nextId <= MaxAdds

\* how often item id occurs in the pending value p
Occurs(p, id) ==
    Cardinality({k \in 1..Len(p.texts) : p.texts[k] = id})
        + (IF p.media = id THEN 1 ELSE 0)

\* the items of a pending value
ItemsOf(p) == {p.texts[k] : k \in 1..Len(p.texts)} \cup (IF p.media # 0 THEN {p.media} ELSE {})

Init ==
    /\ sessions = [s \in Sessions |-> NoBuf]
    /\ mu = FreeMu
    /\ pc = [c \in Callers |-> "idle"]
    /\ arg = [c \in Callers |-> NoArg]
    /\ pend = [c \in Callers |-> NoPending]
    /\ flushWait = [s \in Sessions |-> 0]
    /\ running = EmptyBag
    /\ delivered = [id \in Items |-> 0]
    /\ nextId = 1
    /\ lastAdd = [s \in Sessions |-> NoLast]
    /\ scope \in {"wide", "deep"}
    /\ EscalationIdle
    /\ PipelineIdle
    /\ RankIdle
    /\ HelperIdle
    /\ RelayIdle

\* the start of the exploration under fairness
InitLive ==
    /\ sessions = [s \in Sessions |-> NoBuf]
    /\ mu = FreeMu
    /\ pc = [c \in Callers |-> "idle"]
    /\ arg = [c \in Callers |-> NoArg]
    /\ pend = [c \in Callers |-> NoPending]
    /\ flushWait = [s \in Sessions |-> 0]
    /\ running = EmptyBag
    /\ delivered = [id \in Items |-> 0]
    /\ nextId = 1
    /\ lastAdd = [s \in Sessions |-> NoLast]
    /\ scope = "live"
    /\ EscalationIdle
    /\ PipelineIdle
    /\ RankIdle
    /\ HelperIdle
    /\ RelayIdle

\* TelegramWebhook -> enqueueTelegramText: a webhook goroutine calls AddText
CallAddText(c, s, u) ==
    /\ pc[c] = "idle"
    /\ Admits(c, s)
    /\ arg' = [arg EXCEPT ![c] = [kind |-> "text", s |-> s, id |-> nextId, userID |-> u]]
    /\ pc' = [pc EXCEPT ![c] = "lock"]
    /\ nextId' = nextId + 1
    /\ UNCHANGED <<sessions, mu, pend, flushWait, running, delivered, lastAdd, scope, evars, pvars, rvars, fvars, mvars>>

\* TelegramWebhook -> enqueueTelegramMedia: a webhook goroutine calls AddMedia
CallAddMedia(c, s, u) ==
    /\ pc[c] = "idle"
    /\ Admits(c, s)
    /\ arg' = [arg EXCEPT ![c] = [kind |-> "media", s |-> s, id |-> nextId, userID |-> u]]
    /\ pc' = [pc EXCEPT ![c] = "lock"]
    /\ nextId' = nextId + 1
    /\ UNCHANGED <<sessions, mu, pend, flushWait, running, delivered, lastAdd, scope, evars, pvars, rvars, fvars, mvars>>

\* b.mu.Lock() of AddText / AddMedia
AddLock(c) ==
    /\ pc[c] = "lock"
    /\ mu = FreeMu
    /\ mu' = <<"add", c>>
    /\ pc' = [pc EXCEPT ![c] = "crit"]
    /\ UNCHANGED <<sessions, arg, pend, flushWait, running, delivered, nextId, lastAdd, scope, evars, pvars, rvars, fvars, mvars>>

\* AddText from the lock to the unlock
AddTextBody(c) ==
    /\ pc[c] = "crit"
    /\ mu = <<"add", c>>
    /\ arg[c].kind = "text"
    /\ LET a == arg[c]
           r == AddTextLocked(sessions, a)
       IN  /\ sessions' = r.sessions
           /\ pend' = [pend EXCEPT ![c] = r.pending]
           /\ pc' = [pc EXCEPT ![c] = IF r.flush THEN "cb" ELSE "idle"]
           /\ mu' = IF r.flush THEN UnlockBeforeCallback(mu) ELSE FreeMu
           /\ lastAdd' = [lastAdd EXCEPT ![a.s] =
                            [id |-> a.id, kind |-> "text", ago |-> 0, capped |-> r.flush]]
    /\ arg' = [arg EXCEPT ![c] = NoArg]
    /\ UNCHANGED <<flushWait, running, delivered, nextId, scope, evars, pvars, rvars, fvars, mvars>>

\* AddMedia from the lock to the unlock
AddMediaBody(c) ==
    /\ pc[c] = "crit"
    /\ mu = <<"add", c>>
    /\ arg[c].kind = "media"
    /\ LET a == arg[c]
           r == AddMediaLocked(sessions, a)
       IN  /\ sessions' = r.sessions
           /\ pend' = [pend EXCEPT ![c] = r.pending]
           /\ pc' = [pc EXCEPT ![c] = IF r.flush THEN "cb" ELSE "idle"]
           /\ mu' = IF r.flush THEN UnlockBeforeCallback(mu) ELSE FreeMu
           /\ lastAdd' = [lastAdd EXCEPT ![a.s] =
                            [id |-> a.id, kind |-> "media", ago |-> 0,
                             capped |-> ~r.sessions[a.s].present]]
    /\ arg' = [arg EXCEPT ![c] = NoArg]
    /\ UNCHANGED <<flushWait, running, delivered, nextId, scope, evars, pvars, rvars, fvars, mvars>>

\* onFlush(pending): the buffer is handed to processTelegramPending
Deliver(p) == [id \in Items |-> delivered[id] + Occurs(p, id)]

\* onFlush(pending) in the caller of AddText / AddMedia
AddCallback(c) ==
    /\ pc[c] = "cb"
    /\ delivered' = Deliver(pend[c])
    /\ pend' = [pend EXCEPT ![c] = NoPending]
    /\ pc' = [pc EXCEPT ![c] = "idle"]
    /\ mu' = IF mu = <<"add", c>> THEN FreeMu ELSE mu
    /\ UNCHANGED <<sessions, arg, flushWait, running, nextId, lastAdd, scope, evars, pvars, rvars, fvars, mvars>>

\* the idle timer of the session's buffer expires: time.AfterFunc starts a
\* goroutine running b.flush(sessionID, onFlush)
TimerFire(s) ==
    /\ sessions[s].present
    /\ sessions[s].timer.st = "armed"
    /\ sessions[s].timer.left = 0
    /\ sessions' = [sessions EXCEPT ![s].timer = FiredTimer]
    /\ flushWait' = [flushWait EXCEPT ![s] = @ + 1]
    /\ UNCHANGED <<mu, pc, arg, pend, running, delivered, nextId, lastAdd, scope, evars, pvars, rvars, fvars, mvars>>

\* b.mu.Lock() of flush
FlushLock(s) ==
    /\ flushWait[s] > 0
    /\ mu = FreeMu
    /\ mu' = <<"flush", s>>
    /\ flushWait' = [flushWait EXCEPT ![s] = @ - 1]
    /\ UNCHANGED <<sessions, pc, arg, pend, running, delivered, nextId, lastAdd, scope, evars, pvars, rvars, fvars, mvars>>

\* flush from the lock to the unlock: detach whatever buffer the session has
FlushBody(s) ==
    /\ mu = <<"flush", s>>
    /\ LET d == detachLocked(sessions, s)
       IN  /\ sessions' = d.sessions
           /\ IF d.pending.sessionID # 0
              THEN /\ mu' = UnlockBeforeCallback(mu)
                   /\ running' = running (+) SetToBag(
                          {[p |-> d.pending, holds |-> UnlockBeforeCallback(mu) # FreeMu]})
              ELSE /\ mu' = FreeMu
                   /\ running' = running
    /\ UNCHANGED <<pc, arg, pend, flushWait, delivered, nextId, lastAdd, scope, evars, pvars, rvars, fvars, mvars>>

\* onFlush(pending) in a timer goroutine
FlushCallback(e) ==
    /\ BagIn(e, running)
    /\ delivered' = Deliver(e.p)
    /\ running' = running (-) SetToBag({e})
    /\ mu' = IF e.holds THEN FreeMu ELSE mu
    /\ UNCHANGED <<sessions, pc, arg, pend, flushWait, nextId, lastAdd, scope, evars, pvars, rvars, fvars, mvars>>

\* TickSeconds pass.  A timer that is due fires before more time passes, and
\* no goroutine stays between Lock and Unlock, or waits for the mutex, for
\* seconds: only the callbacks (whole turns) take that long
Tick ==
    /\ \A s \in Sessions :
          ~(sessions[s].present /\ sessions[s].timer.st = "armed"
              /\ sessions[s].timer.left = 0)
    /\ \A s \in Sessions : flushWait[s] = 0
    /\ \A c \in Callers : pc[c] \in {"idle", "cb"}
    /\ mu = FreeMu
    /\ \E s \in Sessions : sessions[s].present
    /\ sessions' = [s \in Sessions |->
          IF sessions[s].present
          THEN [sessions[s] EXCEPT
                  !.age = Min(@ + TickSeconds, telegramMaxWait),
                  !.timer.left = IF sessions[s].timer.st = "armed"
                                 THEN Max(@ - TickSeconds, 0) ELSE @]
          ELSE sessions[s]]
    /\ lastAdd' = [s \in Sessions |->
          [lastAdd[s] EXCEPT !.ago = IF lastAdd[s].id = 0 THEN 0
                                     ELSE Min(@ + TickSeconds, telegramIdleWindow)]]
    /\ UNCHANGED <<mu, pc, arg, pend, flushWait, running, delivered, nextId, scope, evars, pvars, rvars, fvars, mvars>>

Next ==
    \/ \E c \in Callers, s \in Sessions, u \in UserIDs : CallAddText(c, s, u)
    \/ \E c \in Callers, s \in Sessions, u \in UserIDs : CallAddMedia(c, s, u)
    \/ \E c \in Callers : AddLock(c)
    \/ \E c \in Callers : AddTextBody(c)
    \/ \E c \in Callers : AddMediaBody(c)
    \/ \E c \in Callers : AddCallback(c)
    \/ \E s \in Sessions : TimerFire(s)
    \/ \E s \in Sessions : FlushLock(s)
    \/ \E s \in Sessions : FlushBody(s)
    \/ \E e \in BagToSet(running) : FlushCallback(e)
    \/ Tick

Spec == Init /\ [][Next]_vars

\* the scheduler lets every goroutine run and the runtime fires due timers
FairSpec ==
    /\ InitLive /\ [][Next]_vars
    /\ \A c \in Callers : SF_vars(AddLock(c)) /\ WF_vars(AddTextBody(c))
                          /\ WF_vars(AddMediaBody(c)) /\ WF_vars(AddCallback(c))
    /\ \A s \in Sessions : WF_vars(TimerFire(s)) /\ SF_vars(FlushLock(s))
                           /\ WF_vars(FlushBody(s))
    /\ WF_vars(\E e \in BagToSet(running) : FlushCallback(e))
    /\ WF_vars(Tick)

\* ------------------------------------------------------------------------
\* Observations on the debouncer
\* ------------------------------------------------------------------------

\* the copies of item id held anywhere: registry, callers about to call
\* onFlush, timer goroutines in onFlush, and buffers already handed over
Copies(id) ==
    LET inReg == {s \in Sessions : sessions[s].present /\ Occurs(sessions[s].pending, id) > 0}
        inPend == {c \in Callers : Occurs(pend[c], id) > 0}
        runs == BagToSet(running)
        RECURSIVE Sum(_)
        Sum(S) == IF S = {} THEN 0
                  ELSE LET x == CHOOSE y \in S : TRUE
                       IN  x[2] + Sum(S \ {x})
    IN  Sum({<<"r", Occurs(sessions[s].pending, id), s>> : s \in inReg}
              \cup {<<"p", Occurs(pend[c], id), c>> : c \in inPend}
              \cup {<<"f", Occurs(e.p, id) * CopiesIn(e, running), e>> :
                       e \in {x \in runs : Occurs(x.p, id) > 0}})
        + delivered[id]

\* item id was passed to AddText/AddMedia and the call is past its unlock
Added(id) == id < nextId /\ \A c \in Callers : arg[c].id # id

\* the session a mutex holder works on
HolderSession == IF mu[1] = "add" THEN arg[mu[2]].s ELSE mu[2]

\* i immediately followed by j in the sequence q
Adjacent(q, i, j) == \E k \in 1..Len(q) - 1 : q[k] = i /\ q[k + 1] = j

\* i, "\n", j in the dispatched text
JoinedIn(text, i, j) ==
    \E k \in 1..Len(text) - 2 : text[k] = i /\ text[k + 1] = NL /\ text[k + 2] = j

\* C1: no buffer is handed to the flush callback twice and no text or media
\* item is in two delivered buffers: every item exists at most once over the
\* registry, the detached buffers and the delivered ones.
C1_ExactlyOnce == \A id \in Items : Copies(id) <= 1

\* two flush attempts race for one session: its expired timer waits for the
\* mutex while an Add* call has detached the buffer and is calling onFlush
C1_Witness ==
    \E s \in Sessions, c \in Callers :
        flushWait[s] > 0 /\ pc[c] = "cb" /\ pend[c].sessionID = s

\* C2: every item passed to AddText/AddMedia is eventually handed to the
\* flush callback, given that goroutines run and due timers fire.
C2_NoDrop == \A id \in Items : (id < nextId) ~> (delivered[id] >= 1)

\* an item added by a call that only armed the idle timer has been delivered
C2_Witness ==
    \E id \in Items :
        /\ delivered[id] = 1
        /\ \A s \in Sessions : lastAdd[s].id = id => ~lastAdd[s].capped

\* C3: an AddText within the idle window of the previous AddText of the
\* session (which did not hit the cap) lands in the same buffer right after
\* it, so that one flush dispatches "first\nsecond".
C3_TwoTextsOneFlush ==
    [][\A c \in Callers :
        LET a == arg[c]
            l == lastAdd[a.s]
        IN  (AddTextBody(c) /\ l.kind = "text" /\ ~l.capped
                /\ l.ago < telegramIdleWindow)
            => LET b == IF pc'[c] = "cb" THEN pend'[c] ELSE sessions'[a.s].pending
               IN  /\ Adjacent(b.texts, l.id, a.id)
                   /\ JoinedIn(processTelegramPending(b).text, l.id, a.id)]_vars

\* C4: an AddText on a buffer whose age reached telegramMaxWait detaches the
\* buffer with the new text and calls onFlush instead of re-arming; hence an
\* idle timer is never armed later than telegramMaxWait after the start.
C4_CapFlush ==
    /\ [][\A c \in Callers :
            LET a == arg[c]
                old == sessions[a.s]
            IN  (AddTextBody(c) /\ old.present /\ old.age >= telegramMaxWait)
                => /\ ~sessions'[a.s].present
                   /\ pc'[c] = "cb"
                   /\ pend'[c].texts = Append(old.pending.texts, a.id)
                   /\ pend'[c].media = old.pending.media]_vars
    /\ [](\A s \in Sessions :
            (sessions[s].present /\ sessions[s].timer.st = "armed")
            => sessions[s].age + sessions[s].timer.left
                   < telegramMaxWait + telegramIdleWindow)

\* an AddText hit the cap and is handing over a buffer of several texts
C4_Witness ==
    \E s \in Sessions, c \in Callers :
        /\ lastAdd[s].kind = "text" /\ lastAdd[s].capped
        /\ pc[c] = "cb" /\ pend[c].sessionID = s /\ Len(pend[c].texts) >= 2

\* C5: AddMedia on a buffer that already holds a media item detaches that
\* buffer (texts and earlier media) for onFlush and queues the new media in
\* a fresh buffer; no item is ever overwritten or lost.
C5_OneMediaPerTurn ==
    /\ [][\A c \in Callers :
            LET a == arg[c]
                old == sessions[a.s]
            IN  (AddMediaBody(c) /\ old.present /\ old.pending.media # 0)
                => /\ pc'[c] = "cb"
                   /\ pend'[c] = FillUser(old, a.userID).pending
                   /\ sessions'[a.s].present
                   /\ sessions'[a.s].pending.texts = <<>>
                   /\ sessions'[a.s].pending.media = a.id
                   /\ sessions'[a.s].age = 0]_vars
    /\ [](\A id \in Items : Added(id) => Copies(id) >= 1)

\* a second media arrived: the first is being handed over, the second waits
C5_Witness ==
    \E c \in Callers :
        /\ pc[c] = "cb" /\ pend[c].media # 0
        /\ sessions[pend[c].sessionID].present
        /\ sessions[pend[c].sessionID].pending.media # 0

\* C6: while a callback runs, its goroutine does not hold the mutex and the
\* session's registry entry shares nothing with the buffer being processed;
\* an Add* for that session then starts a buffer of age 0.
C6_ClearedBeforeCallback ==
    /\ [](/\ \A c \in Callers :
               pc[c] = "cb" =>
                   /\ mu # <<"add", c>>
                   /\ ItemsOf(sessions[pend[c].sessionID].pending)
                          \cap ItemsOf(pend[c]) = {}
          /\ \A e \in BagToSet(running) :
               /\ ~e.holds
               /\ ItemsOf(sessions[e.p.sessionID].pending) \cap ItemsOf(e.p) = {})
    /\ [][\A c \in Callers :
            LET a == arg[c]
            IN  ((AddTextBody(c) \/ AddMediaBody(c)) /\ ~sessions[a.s].present
                    /\ sessions'[a.s].present)
                => /\ sessions'[a.s].age = 0
                   /\ ItemsOf(sessions'[a.s].pending) = {a.id}]_vars

\* a timer goroutine is in onFlush and the session already has a new buffer
C6_Witness ==
    \E e \in BagToSet(running) : sessions[e.p.sessionID].present

\* C7 as stated: no call for one session waits for the mutex while a
\* goroutine working on another session holds it.
C7_NoCrossSessionWait ==
    \A c \in Callers :
        (pc[c] = "lock" /\ mu # FreeMu) => HolderSession = arg[c].s

\* C7 amended: sessions share the one registry mutex, but it is only held
\* from Lock to Unlock of a registry update, never while a callback runs: a
\* waiting call waits for a goroutine that is inside its critical section.
C7_WaitsOnlyForCriticalSection ==
    \A c \in Callers :
        (pc[c] = "lock" /\ mu # FreeMu)
        => /\ mu[1] = "add" => pc[mu[2]] = "crit"
           /\ \A e \in BagToSet(running) : ~e.holds

\* a call for one session waits while a goroutine of another holds the mutex
C7_Witness ==
    \E c \in Callers :
        pc[c] = "lock" /\ mu # FreeMu /\ HolderSession # arg[c].s

\* ------------------------------------------------------------------------
\* Escalation: values
\* ------------------------------------------------------------------------
Slots == 1..NumSlots

\* time.Time{} (IsZero); the empty timestamp string parses to it
ZeroTime == -1

MinuteTicks == 60 * TicksPerSecond

\* time.Duration(rule.Director.TimeoutMinutes) * time.Minute
Timeout == TimeoutMinutes * MinuteTicks

\* t.UTC().Format(time.RFC3339): whole seconds, the fraction is dropped
FormatRFC3339(t) == t - (t % TicksPerSecond)

\* parseTime: "" gives the zero time; both layouts accept what the service
\* and the store write
parseTime(raw) == IF raw = ZeroTime THEN ZeroTime ELSE raw

\* escalationState{}: all fields empty
EmptyState == [ManagerNotifiedAt |-> ZeroTime, DirectorNotifiedAt |-> ZeroTime,
               LastReason |-> "", LastClarifyCount |-> 0]

\* meta_data of a row: the "escalation" key and its value
NoMeta == [has |-> FALSE, st |-> EmptyState]

\* rows of chat_messages
UserRow(at) == [role |-> "user", sender |-> "user", at |-> at,
                clarify |-> FALSE, esc |-> NoMeta]
AssistantRow(at, clar, meta) == [role |-> "assistant", sender |-> "ai", at |-> at,
                                 clarify |-> clar, esc |-> meta]
AdminRow(at) == [role |-> "assistant", sender |-> "human_admin", at |-> at,
                 clarify |-> FALSE, esc |-> NoMeta]

\* fetchChatHistory: order=created_at.asc, limit: the OLDEST limit rows of
\* the session.  The prior plain user rows at the head carry no metadata and
\* are no assistant or human-admin rows: every reader below skips them.
fetchChatHistory(limit) ==
    LET n == limit - prior
    IN  IF n <= 0 THEN <<>> ELSE SubSeq(msgs, 1, Min(n, Len(msgs)))

\* latestEscalationState: the newest row with an "escalation" key, or nil
latestEscalationState(h) ==
    LET idx == {i \in 1..Len(h) : h[i].esc.has}
    IN  IF idx = {} THEN NoMeta
        ELSE h[CHOOSE i \in idx : \A j \in idx : j <= i].esc

\* lastHumanAdminReply: created_at of the newest human_admin row
lastHumanAdminReply(h) ==
    LET idx == {i \in 1..Len(h) : h[i].sender = "human_admin"
                                    /\ parseTime(h[i].at) # ZeroTime}
    IN  IF idx = {} THEN ZeroTime
        ELSE parseTime(h[CHOOSE i \in idx : \A j \in idx : j <= i].at)

RECURSIVE TrailingClarify(_, _)
\* the loop of countConsecutiveClarify: from row i down, skipping rows that
\* are not assistant rows, until an assistant row that is no clarifying question
TrailingClarify(h, i) ==
    IF i = 0 THEN 0
    ELSE IF h[i].role # "assistant" THEN TrailingClarify(h, i - 1)
    ELSE IF h[i].clarify THEN 1 + TrailingClarify(h, i - 1)
    ELSE 0

\* the count that looks at the current answer only
countConsecutiveClarify_currentonly(h, answerClarify) ==
    IF ~answerClarify THEN 0 ELSE 1

\* countConsecutiveClarify
countConsecutiveClarify(h, answerClarify) ==
    IF ~answerClarify THEN 0 ELSE 1 + TrailingClarify(h, Len(h))

\* shouldTriggerManager
shouldTriggerManager(negative, clarifyCount) ==
    IF ClarifyThreshold > 0 /\ clarifyCount >= ClarifyThreshold
    THEN [triggered |-> TRUE, reason |-> "clarify_count"]
    ELSE IF negative
    THEN [triggered |-> TRUE, reason |-> "negative_keyword"]
    ELSE [triggered |-> FALSE, reason |-> ""]

\* sendTelegramToChat: returns nil without any request when the bot token is
\* empty; otherwise the gateway accepts the message (200) or the call fails
sendTelegramToChat(net) ==
    IF ~token THEN [err |-> FALSE, accepted |-> FALSE]
    ELSE IF net = "ok" THEN [err |-> FALSE, accepted |-> TRUE]
    ELSE [err |-> TRUE, accepted |-> FALSE]

\* the reset that forgets the manager timestamp only
resetOnHumanReply_managerOnly(st, lastManagerReply) ==
    IF st.ManagerNotifiedAt # ZeroTime
          /\ lastManagerReply > parseTime(st.ManagerNotifiedAt)
    THEN [st EXCEPT !.ManagerNotifiedAt = ZeroTime]
    ELSE st

\* maybeEscalate, the reset: a human-admin reply later than the manager
\* notification empties all four fields of the loaded state
resetOnHumanReply(st, lastManagerReply) ==
    IF st.ManagerNotifiedAt # ZeroTime
          /\ lastManagerReply > parseTime(st.ManagerNotifiedAt)
    THEN EmptyState
    ELSE st

\* maybeEscalate for a rule that is present, with manager and director chat
\* ids configured: the returned state, the state it started from (after the
\* reset), what the gateway accepted and whether a director check is scheduled
maybeEscalate(h, negative, answerClarify, netM, netD) ==
    LET loaded == latestEscalationState(h)
        st0 == IF loaded.has THEN loaded.st ELSE EmptyState
        lastManagerReply == lastHumanAdminReply(h)
        reset == st0.ManagerNotifiedAt # ZeroTime
                    /\ lastManagerReply > parseTime(st0.ManagerNotifiedAt)
        st1 == resetOnHumanReply(st0, lastManagerReply)
        clarifyCount == countConsecutiveClarify(h, answerClarify)
        st2 == [st1 EXCEPT !.LastClarifyCount = clarifyCount]
        trig == shouldTriggerManager(negative, clarifyCount)
        tryM == trig.triggered /\ st2.ManagerNotifiedAt = ZeroTime
        resM == sendTelegramToChat(netM)
        okM == tryM /\ ~resM.err
        st3 == IF okM
               THEN [st2 EXCEPT !.ManagerNotifiedAt = FormatRFC3339(now),
                                !.LastReason = trig.reason]
               ELSE st2
        managerAt == parseTime(st3.ManagerNotifiedAt)
        tryD == /\ st3.ManagerNotifiedAt # ZeroTime
                /\ st3.DirectorNotifiedAt = ZeroTime
                /\ TimeoutMinutes > 0
                /\ managerAt # ZeroTime
                /\ now - managerAt >= Timeout
                /\ (lastManagerReply = ZeroTime \/ lastManagerReply < managerAt)
        resD == sendTelegramToChat(netD)
        okD == tryD /\ ~resD.err
        st4 == IF okD
               THEN [st3 EXCEPT !.DirectorNotifiedAt = FormatRFC3339(now)]
               ELSE st3
    IN  [state |-> st4,
         base |-> st1,
         reset |-> reset,
         triedM |-> tryM,
         acceptedM |-> tryM /\ resM.accepted,
         triedD |-> tryD,
         acceptedD |-> tryD /\ resD.accepted,
         schedule |-> okM /\ TimeoutMinutes > 0 /\ managerAt # ZeroTime,
         managerAt |-> managerAt]

\* ------------------------------------------------------------------------
\* Escalation state machine: the turns of one session, the human admin and
\* the delayed director checks
\* ------------------------------------------------------------------------
PriorChoices == {0, HistoryLimit - 1, DirectorHistoryLimit - 2}

EInit ==
    /\ sessions = [s \in Sessions |-> NoBuf]
    /\ mu = FreeMu
    /\ pc = [c \in Callers |-> "idle"]
    /\ arg = [c \in Callers |-> NoArg]
    /\ pend = [c \in Callers |-> NoPending]
    /\ flushWait = [s \in Sessions |-> 0]
    /\ running = EmptyBag
    /\ delivered = [id \in Items |-> 0]
    /\ nextId = 1
    /\ lastAdd = [s \in Sessions |-> NoLast]
    /\ scope = "wide"
    /\ now = 0
    /\ token \in BOOLEAN
    /\ prior \in PriorChoices
    /\ msgs = <<>>
    /\ turn = [t \in Slots |-> IdleTurn]
    /\ started = 0
    /\ timers = EmptyBag
    /\ sent = <<>>
    /\ PipelineIdle
    /\ RankIdle
    /\ HelperIdle
    /\ RelayIdle

\* the session whose turns come one after the other, with the bot token set
ESerialInit ==
    /\ sessions = [s \in Sessions |-> NoBuf]
    /\ mu = FreeMu
    /\ pc = [c \in Callers |-> "idle"]
    /\ arg = [c \in Callers |-> NoArg]
    /\ pend = [c \in Callers |-> NoPending]
    /\ flushWait = [s \in Sessions |-> 0]
    /\ running = EmptyBag
    /\ delivered = [id \in Items |-> 0]
    /\ nextId = 1
    /\ lastAdd = [s \in Sessions |-> NoLast]
    /\ scope = "serial"
    /\ now = 0
    /\ token = TRUE
    /\ prior = 0
    /\ msgs = <<>>
    /\ turn = [t \in Slots |-> IdleTurn]
    /\ started = 0
    /\ timers = EmptyBag
    /\ sent = <<>>
    /\ PipelineIdle
    /\ RankIdle
    /\ HelperIdle
    /\ RelayIdle

\* handleMessage up to the history read: fetchChatHistory(sessionID, 30); a
\* failed read is logged and the turn goes on with no history
TurnRead(t, histOK) ==
    /\ turn[t].pc = "idle"
    /\ scope = "serial" => t = 1
    /\ started < MaxTurns
    /\ started' = started + 1
    /\ turn' = [turn EXCEPT ![t] =
                  [IdleTurn EXCEPT !.pc = "esc",
                                   !.hist = IF histOK THEN fetchChatHistory(HistoryLimit)
                                            ELSE <<>>]]
    /\ UNCHANGED <<now, token, prior, msgs, timers, sent, dvars, pvars, rvars, fvars, mvars>>

\* handleMessage from the answer to the escalation check: the answer is a
\* clarifying question or not, the message holds a negative keyword or not,
\* the escalation rule was found or not (escRule == nil skips the check)
TurnEscalate(t, negative, clar, ruleOK, netM, netD) ==
    /\ turn[t].pc = "esc"
    /\ LET r == maybeEscalate(turn[t].hist, negative, clar, netM, netD)
           m == IF r.acceptedM
                THEN <<[to |-> "manager", via |-> "turn", at |-> now, managerAt |-> r.managerAt]>>
                ELSE <<>>
           d == IF r.acceptedD
                THEN <<[to |-> "director", via |-> "turn", at |-> now, managerAt |-> r.managerAt]>>
                ELSE <<>>
       IN  IF ruleOK
           THEN /\ turn' = [turn EXCEPT ![t] =
                              [pc |-> "persist", hist |-> turn[t].hist, clar |-> clar,
                               ruled |-> TRUE, res |-> <<r>>]]
                /\ sent' = sent \o m \o d
                /\ timers' = IF r.schedule
                             THEN timers (+) SetToBag({[managerAt |-> r.managerAt,
                                                        due |-> now + Timeout]})
                             ELSE timers
           ELSE /\ turn' = [turn EXCEPT ![t] =
                              [pc |-> "persist", hist |-> turn[t].hist, clar |-> clar,
                               ruled |-> FALSE, res |-> <<>>]]
                /\ UNCHANGED <<sent, timers>>
    /\ UNCHANGED <<now, token, prior, msgs, started, dvars, pvars, rvars, fvars, mvars>>

\* handleMessage: insertChatMessages of the user row and the assistant row
\* with assistantMeta["escalation"] = state; a failed insert is only logged
TurnPersist(t, ok) ==
    /\ turn[t].pc = "persist"
    /\ LET meta == IF turn[t].ruled
                   THEN [has |-> TRUE, st |-> turn[t].res[1].state]
                   ELSE NoMeta
       IN  msgs' = IF ok
                   THEN msgs \o <<UserRow(now), AssistantRow(now, turn[t].clar, meta)>>
                   ELSE msgs
    /\ turn' = [turn EXCEPT ![t] = IdleTurn]
    /\ UNCHANGED <<now, token, prior, started, timers, sent, dvars, pvars, rvars, fvars, mvars>>

\* a human admin writes a row into the session
HumanReply ==
    /\ Cardinality({i \in 1..Len(msgs) : msgs[i].sender = "human_admin"}) < MaxReplies
    /\ msgs' = Append(msgs, AdminRow(now))
    /\ UNCHANGED <<now, token, prior, turn, started, timers, sent, dvars, pvars, rvars, fvars, mvars>>

\* the body of the time.AfterFunc of scheduleDirectorEscalation
DirectorCheck(k, histOK, net) ==
    /\ BagIn(k, timers)
    /\ now >= k.due
    /\ timers' = timers (-) SetToBag({k})
    /\ LET h == fetchChatHistory(DirectorHistoryLimit)
           st == latestEscalationState(h)
           t == parseTime(st.st.DirectorNotifiedAt)
           go == /\ histOK
                 /\ ~(lastHumanAdminReply(h) > k.managerAt)
                 /\ ~(st.has /\ t # ZeroTime /\ t > k.managerAt)
           res == sendTelegramToChat(net)
       IN  sent' = IF go /\ res.accepted
                   THEN Append(sent, [to |-> "director", via |-> "timer", at |-> now,
                                      managerAt |-> k.managerAt])
                   ELSE sent
    /\ UNCHANGED <<now, token, prior, msgs, turn, started, dvars, pvars, rvars, fvars, mvars>>

\* half a second passes
TickHalf ==
    /\ now % MinuteTicks < SubSteps
    /\ now' = now + 1
    /\ UNCHANGED <<token, prior, msgs, turn, started, timers, sent, dvars, pvars, rvars, fvars, mvars>>

\* a minute passes
TickMinute ==
    /\ now + MinuteTicks <= MaxMinutes * MinuteTicks + SubSteps
    /\ now' = now + MinuteTicks
    /\ UNCHANGED <<token, prior, msgs, turn, started, timers, sent, dvars, pvars, rvars, fvars, mvars>>

Nets == {"ok", "fail"}

ENext ==
    \/ \E t \in Slots, histOK \in BOOLEAN : TurnRead(t, histOK)
    \/ \E t \in Slots, negative \in BOOLEAN, clar \in BOOLEAN, ruleOK \in BOOLEAN,
          netM \in Nets, netD \in Nets : TurnEscalate(t, negative, clar, ruleOK, netM, netD)
    \/ \E t \in Slots, ok \in BOOLEAN : TurnPersist(t, ok)
    \/ HumanReply
    \/ \E k \in BagToSet(timers), histOK \in BOOLEAN, net \in Nets :
          DirectorCheck(k, histOK, net)
    \/ TickHalf
    \/ TickMinute

EscalationSpec == EInit /\ [][ENext]_vars

\* the turns of the serial session within its first minute: no delayed
\* director check comes due
SNext ==
    \/ \E t \in Slots, histOK \in BOOLEAN : TurnRead(t, histOK)
    \/ \E t \in Slots, negative \in BOOLEAN, clar \in BOOLEAN, ruleOK \in BOOLEAN,
          netM \in Nets, netD \in Nets : TurnEscalate(t, negative, clar, ruleOK, netM, netD)
    \/ \E t \in Slots, ok \in BOOLEAN : TurnPersist(t, ok)
    \/ HumanReply
    \/ TickHalf

SerialSpec == ESerialInit /\ [][SNext]_vars

\* ------------------------------------------------------------------------
\* Observations on the escalation state machine
\* ------------------------------------------------------------------------
\* the messages the gateway accepted in this step
NewlySent == {sent'[j] : j \in (Len(sent) + 1)..Len(sent')}

\* a stored human-admin row later than t
RepliedAfter(t) == \E r \in 1..Len(msgs) : msgs[r].sender = "human_admin" /\ msgs[r].at > t

\* a stored director notification later than t
DirectorRecordedAfter(t) ==
    \E r \in 1..Len(msgs) : /\ msgs[r].esc.has
                            /\ msgs[r].esc.st.DirectorNotifiedAt # ZeroTime
                            /\ msgs[r].esc.st.DirectorNotifiedAt > t

\* C8: once the manager has been notified, no further manager message is sent
\* for the session until a human-admin row with a later timestamp is stored
C8_ManagerOncePerStall ==
    [][\A e \in NewlySent :
          e.to = "manager" =>
             \A i \in 1..Len(sent) :
                sent[i].to = "manager" => RepliedAfter(sent[i].at)]_vars

\* C9: in the state maybeEscalate returns, a notification timestamp becomes
\* non-empty only if the gateway accepted the message in that call, and with
\* no accepted message both timestamps and the last reason keep their values
C9_StateOnlyOnDelivery ==
    \A t \in Slots :
       (turn[t].pc = "persist" /\ turn[t].ruled) =>
          LET r == turn[t].res[1]
          IN  /\ (r.base.ManagerNotifiedAt = ZeroTime /\ r.state.ManagerNotifiedAt # ZeroTime)
                    => r.acceptedM
              /\ (r.base.DirectorNotifiedAt = ZeroTime /\ r.state.DirectorNotifiedAt # ZeroTime)
                    => r.acceptedD
              /\ (~r.acceptedM /\ ~r.acceptedD)
                    => /\ r.state.ManagerNotifiedAt = r.base.ManagerNotifiedAt
                       /\ r.state.DirectorNotifiedAt = r.base.DirectorNotifiedAt
                       /\ r.state.LastReason = r.base.LastReason

\* C10: when the delayed director check fires and the stored history holds a
\* human-admin row, or a recorded director notification, later than the
\* manager notification, the check sends no director message
C10_RevalidatesAtFireTime ==
    [][\A e \in NewlySent :
          (e.via = "timer" /\ e.to = "director") =>
             /\ ~RepliedAfter(e.managerAt)
             /\ ~DirectorRecordedAfter(e.managerAt)]_vars

\* the messages accepted by the gateway for recipient to that belong to the
\* manager notification stamped m
SentFor(to, m) == {i \in 1..Len(sent) : sent[i].to = to /\ sent[i].managerAt = m}

\* C11: for one manager notification the director message is sent at most
\* once, over the synchronous path of later turns and the delayed check
C11_DirectorAtMostOnce ==
    \A i \in 1..Len(sent) :
       (sent[i].to = "manager" /\ Cardinality(SentFor("manager", sent[i].managerAt)) = 1)
          => Cardinality(SentFor("director", sent[i].managerAt)) <= 1

\* the newest row of h that carries an escalation state
NewestState(h, i) == h[i].esc.has /\ \A j \in (i + 1)..Len(h) : ~h[j].esc.has

\* the newest human-admin row of h
NewestReply(h, k) ==
    h[k].sender = "human_admin" /\ \A j \in (k + 1)..Len(h) : h[j].sender # "human_admin"

\* C12: a turn whose history holds a stored manager timestamp and a latest
\* human-admin row strictly after it starts from the empty escalation state:
\* all four fields are cleared before the triggers are evaluated, so the
\* manager is notified again exactly when a trigger fires
C12_ResetOnHumanReply ==
    [][\A t \in Slots, negative \in BOOLEAN, clar \in BOOLEAN, netM \in Nets, netD \in Nets :
          LET h == turn[t].hist
              r == turn'[t].res[1]
          IN  (/\ TurnEscalate(t, negative, clar, TRUE, netM, netD)
               /\ \E i \in 1..Len(h), k \in 1..Len(h) :
                     /\ NewestState(h, i)
                     /\ NewestReply(h, k)
                     /\ h[i].esc.st.ManagerNotifiedAt # ZeroTime
                     /\ h[k].at > h[i].esc.st.ManagerNotifiedAt)
              => /\ r.base = EmptyState
                 /\ r.triedM <=> (negative \/ r.state.LastClarifyCount >= ClarifyThreshold)
                 /\ ~r.triedD]_vars

\* a turn after a human-admin reply started from the empty state and has
\* notified the manager anew
C12_Witness ==
    \E t \in Slots :
       /\ turn[t].pc = "persist" /\ turn[t].ruled
       /\ turn[t].res[1].reset
       /\ turn[t].res[1].acceptedM
       /\ \E i \in 1..Len(turn[t].hist) : turn[t].hist[i].esc.st.LastReason # ""

\* the assistant rows of h, and those from row i on
AssistantRows(h) == {i \in 1..Len(h) : h[i].role = "assistant"}
AssistantRowsFrom(h, i) == {j \in AssistantRows(h) : j >= i}

\* the n most recent assistant rows of h exist and are clarifying questions
RecentClarify(h, n) ==
    /\ Cardinality(AssistantRows(h)) >= n
    /\ \A i \in AssistantRows(h) :
          Cardinality(AssistantRowsFrom(h, i)) <= n => h[i].clarify

\* C13: with threshold N > 0, a turn that starts in Idle and whose message
\* holds no negative keyword notifies the manager exactly when its answer is
\* a clarifying question and the N-1 most recent assistant rows of its
\* history are clarifying questions too; a non-clarifying answer counts 0
C13_FiresOnNthClarify ==
    [][\A t \in Slots, clar \in BOOLEAN, netM \in Nets, netD \in Nets :
          LET h == turn[t].hist
              r == turn'[t].res[1]
          IN  (TurnEscalate(t, FALSE, clar, TRUE, netM, netD)
                  /\ r.base.ManagerNotifiedAt = ZeroTime)
              => /\ r.triedM <=> (clar /\ RecentClarify(h, ClarifyThreshold - 1))
                 /\ r.triedM => (r.acceptedM => r.state.LastReason = "clarify_count")
                 /\ ~clar => r.state.LastClarifyCount = 0]_vars

\* the manager was notified for the count of clarifying questions in a turn
\* whose history shows an earlier clarifying answer that did not notify
C13_Witness ==
    \E t \in Slots :
       /\ turn[t].pc = "persist" /\ turn[t].ruled
       /\ turn[t].res[1].acceptedM
       /\ turn[t].res[1].state.LastReason = "clarify_count"
       /\ turn[t].res[1].state.LastClarifyCount = ClarifyThreshold
       /\ \E i \in 1..Len(turn[t].hist) :
             /\ turn[t].hist[i].clarify
             /\ turn[t].hist[i].esc.has
             /\ turn[t].hist[i].esc.st.ManagerNotifiedAt = ZeroTime

\* ------------------------------------------------------------------------
\* RankProductsByBehavior (personalization.go)
\* ------------------------------------------------------------------------
\* the value of a metadata key the map does not hold: the nil interface
Absent == "absent"

\* strings.ToLower(strings.TrimSpace(toString(v))) on the trait values used;
\* toString formats everything that is not a string with %v, the nil
\* interface of an absent key as "<nil>"
Norm(v) ==
    IF v = Absent THEN "<nil>"
    ELSE IF v = "A" \/ v = " a" THEN "a" ELSE v

\* Metadata of a product: type, brand, color, series (a string, or Absent)
Meta(t, b, c, sr) == [type |-> t, brand |-> b, color |-> c, series |-> sr]

\* the kinds of product metadata explored
MetaKinds == {Meta(Absent, Absent, Absent, Absent), Meta("a", Absent, Absent, Absent),
              Meta("A", "", "", ""), Meta(Absent, "a", Absent, "a"),
              Meta(Absent, Absent, "a", Absent), Meta(" a", "a", "a", "a"),
              Meta("b", Absent, Absent, "a")}

\* the behaviours explored: nil (<<>>), or the products viewed, liked,
\* in the cart or ordered, by their metadata
Behaviors == {<<>>, <<Meta("", "", "", "")>>, <<Meta("A", Absent, Absent, Absent)>>,
              <<Meta("a", "a", "", ""), Meta(Absent, Absent, "a", "a")>>}

\* collectBehaviorTraits
collectBehaviorTraits(bh) ==
    [types  |-> {Norm(bh[i].type) : i \in 1..Len(bh)} \ {""},
     brands |-> {Norm(bh[i].brand) : i \in 1..Len(bh)} \ {""},
     colors |-> {Norm(bh[i].color) : i \in 1..Len(bh)} \ {""},
     series |-> {Norm(bh[i].series) : i \in 1..Len(bh)} \ {""}]

\* the score of a product's metadata against the collected traits
Score(m, tr) ==
      (IF Norm(m.type) # "" /\ Norm(m.type) \in tr.types THEN 4 ELSE 0)
    + (IF Norm(m.brand) # "" /\ Norm(m.brand) \in tr.brands THEN 3 ELSE 0)
    + (IF Norm(m.color) # "" /\ Norm(m.color) \in tr.colors THEN 2 ELSE 0)
    + (IF Norm(m.series) # "" /\ Norm(m.series) \in tr.series THEN 1 ELSE 0)

\* the comparison that orders by the index alone
Less_byindex(x, y) == x.i < y.i

\* the less function handed to sort.SliceStable
Less(x, y) == IF x.s = y.s THEN x.i < y.i ELSE x.s > y.s

RECURSIVE InsertStable(_, _)
\* x goes behind every element it is not less than
InsertStable(sorted, x) ==
    IF sorted = <<>> THEN <<x>>
    ELSE IF Less(x, Head(sorted)) THEN <<x>> \o sorted
    ELSE <<Head(sorted)>> \o InsertStable(Tail(sorted), x)

RECURSIVE SliceStable(_)
\* sort.SliceStable: a stable sort by Less
SliceStable(q) ==
    IF q = <<>> THEN <<>>
    ELSE InsertStable(SliceStable(SubSeq(q, 1, Len(q) - 1)), q[Len(q)])

\* RankProductsByBehavior
RankProductsByBehavior(products, bh) ==
    LET tr == collectBehaviorTraits(bh)
        scoredProducts == [i \in 1..Len(products) |->
                             [p |-> products[i], s |-> Score(products[i].meta, tr), i |-> i]]
        srt == SliceStable(scoredProducts)
    IN  IF Len(products) = 0 \/ bh = <<>> THEN products
        ELSE IF tr.types = {} /\ tr.brands = {} /\ tr.colors = {} /\ tr.series = {}
        THEN products
        ELSE [k \in 1..Len(srt) |-> srt[k].p]

\* the candidate lists: products with distinct ids in retrieval order
Candidates ==
    UNION {[1..n -> MetaKinds] : n \in 0..MaxProducts}

RInit ==
    /\ sessions = [s \in Sessions |-> NoBuf]
    /\ mu = FreeMu
    /\ pc = [c \in Callers |-> "idle"]
    /\ arg = [c \in Callers |-> NoArg]
    /\ pend = [c \in Callers |-> NoPending]
    /\ flushWait = [s \in Sessions |-> 0]
    /\ running = EmptyBag
    /\ delivered = [id \in Items |-> 0]
    /\ nextId = 1
    /\ lastAdd = [s \in Sessions |-> NoLast]
    /\ scope = "wide"
    /\ EscalationIdle
    /\ PipelineIdle
    /\ \E ms \in Candidates : cands = [i \in 1..Len(ms) |-> [id |-> i, meta |-> ms[i]]]
    /\ behavior \in Behaviors
    /\ ranked = NoRanked
    /\ HelperIdle
    /\ RelayIdle

\* one call of RankProductsByBehavior
Rank ==
    /\ ~ranked.done
    /\ ranked' = [done |-> TRUE, out |-> RankProductsByBehavior(cands, behavior)]
    /\ UNCHANGED <<cands, behavior, dvars, evars, pvars, fvars, mvars>>

RankSpec == RInit /\ [][Rank]_vars

\* the score the ranking gives to a product
ScoreOf(p) == Score(p.meta, collectBehaviorTraits(behavior))

\* position of the product with identifier id in the sequence q
PosIn(q, id) == CHOOSE k \in 1..Len(q) : q[k].id = id

\* C20: the ranking returns a permutation of the candidates in which no
\* product of strictly higher score comes after one of strictly lower score
\* and products of equal score keep their retrieval order
C20_StableSortByScore ==
    ranked.done =>
       LET out == ranked.out
       IN  /\ Len(out) = Len(cands)
           /\ \A i \in 1..Len(cands) : \E k \in 1..Len(out) : out[k] = cands[i]
           /\ \A k, l \in 1..Len(out) :
                 k < l => /\ ScoreOf(out[k]) >= ScoreOf(out[l])
                          /\ ScoreOf(out[k]) = ScoreOf(out[l])
                                => PosIn(cands, out[k].id) < PosIn(cands, out[l].id)

\* a ranking that moved a product of higher score forward and kept two
\* products of equal score in their order
C20_Witness ==
    /\ ranked.done
    /\ ranked.out # cands
    /\ \E k \in 1..Len(ranked.out) - 1 :
          /\ ScoreOf(ranked.out[k]) = ScoreOf(ranked.out[k + 1])
          /\ ScoreOf(ranked.out[k]) > 0

\* ------------------------------------------------------------------------
\* The turn pipeline: one request served by handleMessage
\* ------------------------------------------------------------------------
\* the characters of a message: the space, a lower-case letter and its
\* upper-case form
LetterLow == 1
LetterUp == 11
MsgChars == {SP, LetterLow, LetterUp}

Messages == UNION {[1..n -> MsgChars] : n \in 0..MaxMsgLen}

\* strings.ToLower
ToLower(str) == [i \in 1..Len(str) |-> IF str[i] = LetterUp THEN LetterLow ELSE str[i]]

\* strings.Contains
Contains(str, sub) ==
    \E k \in 0..(Len(str) - Len(sub)) : SubSeq(str, k + 1, k + Len(sub)) = sub

\* the liveness phrases, in lower case
pings == {<<LetterLow, LetterLow>>}

\* detectPingMessage that compares without lowering the case
detectPingMessage_casesensitive(msg) ==
    LET m == TrimSpace(msg)
    IN  m # <<>> /\ \E ph \in pings : Contains(m, ph)

\* detectPingMessage
detectPingMessage(msg) ==
    LET m == ToLower(TrimSpace(msg))
    IN  m # <<>> /\ \E ph \in pings : Contains(m, ph)

\* the debouncer is idle
DebouncerIdle ==
    /\ sessions = [s \in Sessions |-> NoBuf]
    /\ mu = FreeMu
    /\ pc = [c \in Callers |-> "idle"]
    /\ arg = [c \in Callers |-> NoArg]
    /\ pend = [c \in Callers |-> NoPending]
    /\ flushWait = [s \in Sessions |-> 0]
    /\ running = EmptyBag
    /\ delivered = [id \in Items |-> 0]
    /\ nextId = 1
    /\ lastAdd = [s \in Sessions |-> NoLast]
    /\ scope = "wide"

\* a request arrives: its message, whether it names a session, whether it
\* came through the internal relay or carries an incoming quote document,
\* and the human-handoff flag the store holds for its session
PInit ==
    /\ DebouncerIdle
    /\ EscalationIdle
    /\ RankIdle
    /\ HelperIdle
    /\ RelayIdle
    /\ req \in [msg : Messages, session : BOOLEAN, relay : BOOLEAN, quotePDF : BOOLEAN]
    /\ flag \in BOOLEAN
    /\ flag => req.session
    /\ stage = "start"
    /\ loc = NoLoc
    /\ calls = <<>>
    /\ rows = <<>>
    /\ resp = NoResp

\* the log of collaborator calls with one more call
Log(fn, res) == Append(calls, [fn |-> fn, res |-> res])

\* the rows of a turn that always hold the user row
TurnRows_withUser == <<"user", "assistant">>

\* the rows of a turn: the user row is left out for a relayed message
TurnRows == IF req.relay THEN <<"assistant">> ELSE <<"user", "assistant">>

\* insertChatMessages(rows); a failure is only logged
Insert(roles, ok) == Append(rows, [roles |-> roles, ok |-> ok])

\* the handler has written its response and returned
Finish(status, kind, answer) ==
    /\ resp' = [status |-> status, kind |-> kind, answer |-> answer]
    /\ stage' = "done"

\* handleMessage: a blank message is rejected with 400
Validate ==
    /\ stage = "start"
    /\ IF TrimSpace(req.msg) = <<>>
       THEN Finish(400, "text", "message is required")
       ELSE stage' = (IF req.session THEN "ensure" ELSE "behavior") /\ UNCHANGED resp
    /\ UNCHANGED <<req, flag, loc, calls, rows, dvars, evars, rvars, fvars, mvars>>

\* ensureChatSession: on failure the human-mode check and the history read
\* are skipped
EnsureSession(ok) ==
    /\ stage = "ensure"
    /\ calls' = Log("ensureChatSession", IF ok THEN "ok" ELSE "err")
    /\ stage' = IF ok THEN "human" ELSE "behavior"
    /\ UNCHANGED <<req, flag, loc, rows, resp, dvars, evars, rvars, fvars, mvars>>

\* fetchHumanMode: (false, err) on failure, else the stored flag; the error
\* is only logged, so the log keeps the value that came back
FetchHumanMode(ok) ==
    /\ stage = "human"
    /\ calls' = Log("fetchHumanMode", IF ok /\ flag THEN "true" ELSE "false")
    /\ stage' = IF ok /\ flag THEN "handoff" ELSE "history"
    /\ UNCHANGED <<req, flag, loc, rows, resp, dvars, evars, rvars, fvars, mvars>>

\* human mode: insert the user row unless relayed, answer "" and return
HumanHandoff(insOK) ==
    /\ stage = "handoff"
    /\ rows' = IF req.relay THEN rows ELSE Insert(<<"user">>, insOK)
    /\ Finish(200, "json", "")
    /\ UNCHANGED <<req, flag, loc, calls, dvars, evars, rvars, fvars, mvars>>

\* fetchChatHistory(sessionID, 30); a failure is only logged and the turn
\* goes on the same way, so the log keeps the call and not its outcome
FetchHistory ==
    /\ stage = "history"
    /\ calls' = Log("fetchChatHistory", "any")
    /\ stage' = "behavior"
    /\ UNCHANGED <<req, flag, loc, rows, resp, dvars, evars, rvars, fvars, mvars>>

\* fetchUserBehavior for a site session with a user id: "skip" when the
\* condition is false, else "none" (an error or no profile) or a profile
FetchBehavior(res) ==
    /\ stage = "behavior"
    /\ calls' = IF res = "skip" THEN calls ELSE Log("fetchUserBehavior", res)
    /\ loc' = [loc EXCEPT !.behavior = (res = "profile")]
    /\ stage' = "ping"
    /\ UNCHANGED <<req, flag, rows, resp, dvars, evars, rvars, fvars, mvars>>

\* the liveness reply: both rows are inserted when there is a session
PingReply(insOK) ==
    /\ stage = "ping"
    /\ detectPingMessage(req.msg)
    /\ rows' = IF req.session THEN Insert(TurnRows, insOK) ELSE rows
    /\ Finish(200, "json", "ping")
    /\ UNCHANGED <<req, flag, loc, calls, dvars, evars, rvars, fvars, mvars>>

\* no liveness phrase: go on
NoPing ==
    /\ stage = "ping"
    /\ ~detectPingMessage(req.msg)
    /\ stage' = "assort"
    /\ UNCHANGED <<req, flag, loc, calls, rows, resp, dvars, evars, rvars, fvars, mvars>>

\* detectAssortmentQuery and handleAssortmentQuery
Assortment(kind, ok, insOK) ==
    /\ stage = "assort"
    /\ IF ~kind
       THEN stage' = "decide" /\ UNCHANGED <<calls, rows, resp>>
       ELSE /\ calls' = Log("handleAssortmentQuery", IF ok THEN "ok" ELSE "err")
            /\ IF ok
               THEN /\ rows' = IF req.session THEN Insert(TurnRows, insOK) ELSE rows
                    /\ Finish(200, "json", "assortment")
               ELSE /\ Finish(502, "text", "assortment lookup failed")
                    /\ UNCHANGED rows
    /\ UNCHANGED <<req, flag, loc, dvars, evars, rvars, fvars, mvars>>

\* what the classifier call can end in: a decision, or a failure of the
\* request, the status, the decoding, the choices or the decision JSON
Decisions == {"true", "false", "request", "status", "decode", "empty", "json"}

\* decideProductSearch: every failure returns (true, err)
decideProductSearch(res) ==
    IF res \in {"true", "false"}
    THEN [need |-> res = "true", err |-> FALSE]
    ELSE [need |-> TRUE, err |-> TRUE]

\* the decision that fails closed
needProducts_failclosed(d, quote, quotePDF) == (~d.err /\ d.need) \/ quote \/ quotePDF

\* handleMessage: needProducts after the decision, the quote intent and the
\* incoming quote document
needProducts(d, quote, quotePDF) == (IF d.err THEN TRUE ELSE d.need) \/ quote \/ quotePDF

\* detectKpIntent, then decideProductSearch
Decide(kp, res) ==
    /\ stage = "decide"
    /\ calls' = Log("decideProductSearch",
                    IF decideProductSearch(res).err THEN "err" ELSE "ok")
    /\ LET quote == kp /\ ~req.quotePDF
       IN  loc' = [loc EXCEPT !.quote = quote,
                              !.need = needProducts(decideProductSearch(res), quote,
                                                    req.quotePDF)]
    /\ stage' = "embed"
    /\ UNCHANGED <<req, flag, rows, resp, dvars, evars, rvars, fvars, mvars>>

\* the embedding step that only logs a failure and goes on
Embed_ignoresError(ok) ==
    /\ stage = "embed"
    /\ calls' = Log("getEmbedding", IF ok THEN "ok" ELSE "err")
    /\ stage' = (IF loc.need THEN "articles" ELSE "reuse")
    /\ UNCHANGED <<req, flag, loc, rows, resp, dvars, evars, rvars, fvars, mvars>>

\* getEmbedding: a failure ends the turn with 502
Embed(ok) ==
    /\ stage = "embed"
    /\ calls' = Log("getEmbedding", IF ok THEN "ok" ELSE "err")
    /\ IF ok
       THEN stage' = (IF loc.need THEN "articles" ELSE "reuse") /\ UNCHANGED resp
       ELSE Finish(502, "text", "embedding failed")
    /\ UNCHANGED <<req, flag, loc, rows, dvars, evars, rvars, fvars, mvars>>

\* what a retrieval call can return
Found == {"rows", "empty", "err"}

\* the article search that is always followed by the hybrid search
Articles_thenHybrid(docs, res) ==
    /\ stage = "articles"
    /\ IF ~docs
       THEN UNCHANGED <<calls, loc>>
       ELSE /\ calls' = Log("searchProductsByArticles", res)
            /\ loc' = [loc EXCEPT !.products = IF res = "rows" THEN 1 ELSE 0]
    /\ stage' = "hybrid"
    /\ UNCHANGED <<req, flag, rows, resp, dvars, evars, rvars, fvars, mvars>>

\* searchProductsByArticles when the request carries document articles; its
\* error is logged and the hybrid search follows
Articles(docs, res) ==
    /\ stage = "articles"
    /\ IF ~docs
       THEN stage' = "hybrid" /\ UNCHANGED <<calls, loc>>
       ELSE /\ calls' = Log("searchProductsByArticles", res)
            /\ loc' = [loc EXCEPT !.products = IF res = "rows" THEN 1 ELSE 0]
            /\ stage' = IF res = "rows" THEN "reuse" ELSE "hybrid"
    /\ UNCHANGED <<req, flag, rows, resp, dvars, evars, rvars, fvars, mvars>>

\* searchProductsHybrid: search_products with the embedding
HybridVector(res) ==
    /\ stage = "hybrid"
    /\ calls' = Log("search_products", res)
    /\ loc' = [loc EXCEPT !.products = IF res = "rows" THEN 1 ELSE 0]
    /\ stage' = CASE res = "rows" -> "reuse"
                  [] res = "empty" -> "listing"
                  [] OTHER -> "textonly"
    /\ UNCHANGED <<req, flag, rows, resp, dvars, evars, rvars, fvars, mvars>>

\* searchProductsHybrid: the text-only retry after a failed search
HybridText(res) ==
    /\ stage = "textonly"
    /\ calls' = Log("search_products_text", res)
    /\ loc' = [loc EXCEPT !.products = IF res = "rows" THEN 1 ELSE 0]
    /\ IF res = "err"
       THEN Finish(502, "text", "supabase products search failed")
       ELSE stage' = (IF res = "rows" THEN "reuse" ELSE "listing") /\ UNCHANGED resp
    /\ UNCHANGED <<req, flag, rows, dvars, evars, rvars, fvars, mvars>>

\* searchProductsFallback: get_all_products, the plain listing
PlainListing(res) ==
    /\ stage = "listing"
    /\ calls' = Log("get_all_products", res)
    /\ loc' = [loc EXCEPT !.products = IF res = "rows" THEN 1 ELSE 0]
    /\ IF res = "err"
       THEN Finish(502, "text", "supabase products search failed")
       ELSE stage' = "reuse" /\ UNCHANGED resp
    /\ UNCHANGED <<req, flag, rows, dvars, evars, rvars, fvars, mvars>>

\* isFollowUpMessage: a message of one to three words
isFollowUpMessage(msg) ==
    /\ TrimSpace(msg) # <<>>
    /\ Cardinality({i \in 1..Len(msg) : msg[i] # SP /\ (i = 1 \/ msg[i - 1] = SP)}) <= 3

\* loadProductsFromHistory for a follow-up message without products; an
\* error is only logged and leaves the turn without products; products can
\* come back only from a history that was read
Reuse(reused) ==
    /\ stage = "reuse"
    /\ reused => \E i \in 1..Len(calls) : calls[i].fn = "fetchChatHistory"
    /\ IF loc.products = 0 /\ isFollowUpMessage(req.msg)
       THEN /\ calls' = Log("loadProductsFromHistory", IF reused THEN "rows" ELSE "none")
            /\ loc' = [loc EXCEPT !.products = IF reused THEN 1 ELSE 0]
       ELSE UNCHANGED <<calls, loc>>
    /\ stage' = "personalize"
    /\ UNCHANGED <<req, flag, rows, resp, dvars, evars, rvars, fvars, mvars>>

\* rankProductsByBehavior, or fallbackProductsFromBehavior without products
Personalize(fb) ==
    /\ stage = "personalize"
    /\ IF loc.products > 0 /\ loc.behavior
       THEN calls' = Log("rankProductsByBehavior", "ok") /\ UNCHANGED loc
       ELSE IF loc.products = 0 /\ loc.need /\ loc.behavior
       THEN /\ calls' = Log("fallbackProductsFromBehavior", IF fb THEN "rows" ELSE "empty")
            /\ loc' = [loc EXCEPT !.products = IF fb THEN 1 ELSE 0]
       ELSE UNCHANGED <<calls, loc>>
    /\ stage' = "quote"
    /\ UNCHANGED <<req, flag, rows, resp, dvars, evars, rvars, fvars, mvars>>

\* generateQuotePDF when a quote is wanted and there are products
Quote(ok, insOK) ==
    /\ stage = "quote"
    /\ IF loc.quote /\ loc.products > 0
       THEN /\ calls' = Log("generateQuotePDF", IF ok THEN "ok" ELSE "err")
            /\ IF ok
               THEN /\ rows' = IF req.session THEN Insert(TurnRows, insOK) ELSE rows
                    /\ Finish(200, "pdf", "KP.pdf")
               ELSE Finish(502, "text", "quote generation failed") /\ UNCHANGED rows
       ELSE stage' = "knowledge" /\ UNCHANGED <<calls, rows, resp>>
    /\ UNCHANGED <<req, flag, loc, dvars, evars, rvars, fvars, mvars>>

\* match_sales_knowledge
Knowledge(ok) ==
    /\ stage = "knowledge"
    /\ calls' = Log("match_sales_knowledge", IF ok THEN "ok" ELSE "err")
    /\ IF ok
       THEN stage' = (IF req.session THEN "rule" ELSE "generate") /\ UNCHANGED resp
       ELSE Finish(502, "text", "supabase knowledge search failed")
    /\ UNCHANGED <<req, flag, loc, rows, dvars, evars, rvars, fvars, mvars>>

\* fetchEscalationRule: "none" (an error or no rule) or a rule
Rule(res) ==
    /\ stage = "rule"
    /\ calls' = Log("fetchEscalationRule", res)
    /\ loc' = [loc EXCEPT !.rule = (res = "rule")]
    /\ stage' = "generate"
    /\ UNCHANGED <<req, flag, rows, resp, dvars, evars, rvars, fvars, mvars>>

\* callOpenAI: a text, an empty text or an error; the error ends the turn
\* with 502, the empty text is replaced by the canned clarifying phrase
Generate(res) ==
    /\ stage = "generate"
    /\ calls' = Log("callOpenAI", res)
    /\ IF res = "err"
       THEN Finish(502, "text", "openai generation failed") /\ UNCHANGED loc
       ELSE /\ loc' = [loc EXCEPT !.answer = IF res = "empty" THEN "fallback" ELSE "generated"]
            /\ stage' = "persist"
            /\ UNCHANGED resp
    /\ UNCHANGED <<req, flag, rows, dvars, evars, rvars, fvars, mvars>>

\* the end of a turn that answers 502 when the insert of its rows fails
Persist_abortsOnFailedInsert(summ, insOK) ==
    /\ stage = "persist"
    /\ IF req.session
       THEN calls' = Log("summarizeHistory", "any") /\ rows' = Insert(<<"user", "assistant">>, insOK)
       ELSE UNCHANGED <<calls, rows>>
    /\ IF req.session /\ ~insOK
       THEN Finish(502, "text", "insert messages failed")
       ELSE Finish(200, "json", loc.answer)
    /\ UNCHANGED <<req, flag, loc, dvars, evars, rvars, fvars, mvars>>

\* the log after summarizeHistory, when shouldUpdateSummary asks for it
Summarized(summ) == IF summ THEN Log("summarizeHistory", "any") ELSE calls

\* the end of the turn: the summary when it is due, the escalation check
\* when a rule was found, the insert of the turn's rows, the JSON answer
Persist(summ, insOK) ==
    /\ stage = "persist"
    /\ IF req.session
       THEN /\ calls' = IF loc.rule
                        THEN Append(Summarized(summ), [fn |-> "maybeEscalate", res |-> "any"])
                        ELSE Summarized(summ)
            /\ rows' = Insert(TurnRows, insOK)
       ELSE UNCHANGED <<calls, rows>>
    /\ Finish(200, "json", loc.answer)
    /\ UNCHANGED <<req, flag, loc, dvars, evars, rvars, fvars, mvars>>

PNext ==
    \/ Validate
    \/ \E ok \in BOOLEAN : EnsureSession(ok)
    \/ \E ok \in BOOLEAN : FetchHumanMode(ok)
    \/ \E insOK \in BOOLEAN : HumanHandoff(insOK)
    \/ FetchHistory
    \/ \E res \in {"skip", "none", "profile"} : FetchBehavior(res)
    \/ \E insOK \in BOOLEAN : PingReply(insOK)
    \/ NoPing
    \/ \E kind \in BOOLEAN, ok \in BOOLEAN, insOK \in BOOLEAN : Assortment(kind, ok, insOK)
    \/ \E kp \in BOOLEAN, res \in Decisions : Decide(kp, res)
    \/ \E ok \in BOOLEAN : Embed(ok)
    \/ \E docs \in BOOLEAN, res \in Found : Articles(docs, res)
    \/ \E res \in Found : HybridVector(res)
    \/ \E res \in Found : HybridText(res)
    \/ \E res \in Found : PlainListing(res)
    \/ \E reused \in BOOLEAN : Reuse(reused)
    \/ \E fb \in BOOLEAN : Personalize(fb)
    \/ \E ok \in BOOLEAN, insOK \in BOOLEAN : Quote(ok, insOK)
    \/ \E ok \in BOOLEAN : Knowledge(ok)
    \/ \E res \in {"none", "rule"} : Rule(res)
    \/ \E res \in {"text", "empty", "err"} : Generate(res)
    \/ \E summ \in BOOLEAN, insOK \in BOOLEAN : Persist(summ, insOK)

PipelineSpec == PInit /\ [][PNext]_vars

\* the names of the collaborators called so far in the turn
Called == {calls[i].fn : i \in 1..Len(calls)}

\* the roles of the rows the turn inserted
Inserted == UNION {{rows[i].roles[j] : j \in 1..Len(rows[i].roles)} : i \in 1..Len(rows)}

\* C14: a finished turn on a session flagged human-handoff in the store
\* answers "", inserts at most the user row (nothing for a relayed message)
\* and calls nothing after the session and human-mode reads
C14_HandoffDoesNothingElse ==
    (stage = "done" /\ flag /\ TrimSpace(req.msg) # <<>>)
       => /\ resp.status = 200 /\ resp.answer = ""
          /\ Called \subseteq {"ensureChatSession", "fetchHumanMode"}
          /\ Inserted \subseteq (IF req.relay THEN {} ELSE {"user"})

\* the message holds a liveness phrase in any mix of cases
HasLivenessPhrase == \E ph \in pings : Contains(ToLower(req.msg), ph)

\* the collaborators a liveness turn must not reach
BeyondPing ==
    {"handleAssortmentQuery", "decideProductSearch", "getEmbedding",
     "searchProductsByArticles", "search_products", "search_products_text",
     "get_all_products", "loadProductsFromHistory", "generateQuotePDF",
     "match_sales_knowledge", "fetchEscalationRule", "callOpenAI",
     "summarizeHistory", "maybeEscalate"}

\* a finished turn that answered with the canned liveness reply and reached
\* none of the later collaborators
CannedReplyOnly ==
    /\ resp = [status |-> 200, kind |-> "json", answer |-> "ping"]
    /\ Called \cap BeyondPing = {}

\* C15 as stated: a liveness message on a session not in human-handoff gets
\* the canned reply, both the user row and the assistant row are inserted,
\* and no classifier, embedding, search, generation or escalation call is made
C15_PingPersistsBothSides ==
    (stage = "done" /\ HasLivenessPhrase /\ req.session /\ ~flag)
       => /\ CannedReplyOnly
          /\ Len(rows) = 1 /\ rows[1].roles = <<"user", "assistant">>

\* C15 amended: the one insert holds the assistant row and, unless the
\* message came through the internal relay, the user row before it
C15_PingReply ==
    (stage = "done" /\ HasLivenessPhrase /\ req.session /\ ~flag)
       => /\ CannedReplyOnly
          /\ Len(rows) = 1
          /\ rows[1].roles = (IF req.relay THEN <<"assistant">> ELSE <<"user", "assistant">>)

\* a relayed liveness message with an upper-case letter, answered
C15_Witness ==
    /\ stage = "done" /\ req.session /\ ~flag /\ req.relay
    /\ \E i \in 1..Len(req.msg) : req.msg[i] = LetterUp
    /\ HasLivenessPhrase
    /\ resp.answer = "ping"
    /\ Len(rows) = 1 /\ rows[1].roles = <<"assistant">>

\* the classifier call of the turn failed
DecisionFailed ==
    \E i \in 1..Len(calls) : calls[i] = [fn |-> "decideProductSearch", res |-> "err"]

\* C16: after a failed classifier call the turn goes on to the embedding
\* with product-need true; product-need is true whenever quote intent is
C16_FailOpenProductNeed ==
    /\ DecisionFailed => (loc.need /\ (stage = "embed" \/ "getEmbedding" \in Called))
    /\ loc.quote => loc.need

\* a turn without quote intent or quote document whose classifier call
\* failed, that searched products and ended with the generated answer
C16_Witness ==
    /\ DecisionFailed /\ ~loc.quote /\ ~req.quotePDF
    /\ "search_products" \in Called
    /\ stage = "done" /\ resp.status = 200 /\ resp.answer = "generated"

\* C17: once getEmbedding has failed it is the last call of the turn, the
\* turn is over with the 502 "embedding failed" response and no row was
\* inserted: no search, ranking, quote, escalation check or generation ran
C17_EmbeddingFailureAborts ==
    (\E i \in 1..Len(calls) : calls[i] = [fn |-> "getEmbedding", res |-> "err"])
       => /\ calls[Len(calls)] = [fn |-> "getEmbedding", res |-> "err"]
          /\ stage = "done"
          /\ resp = [status |-> 502, kind |-> "text", answer |-> "embedding failed"]
          /\ rows = <<>>

\* a turn on a session that needed products and whose embedding failed
C17_Witness ==
    /\ stage = "done" /\ req.session /\ loc.need
    /\ calls[Len(calls)] = [fn |-> "getEmbedding", res |-> "err"]
    /\ resp.status = 502

\* C18: the article search, the hybrid search (with its text-only retry)
\* and the plain listing are called in this order, each at most once; the
\* hybrid search is not called after an article search that returned
\* products, nor the plain listing after a hybrid search that returned rows
C18_RetrievalOrder ==
    LET At(fns) == {i \in 1..Len(calls) : calls[i].fn \in fns}
        article == At({"searchProductsByArticles"})
        hybrid == At({"search_products", "search_products_text"})
        listing == At({"get_all_products"})
    IN  /\ Cardinality(article) <= 1 /\ Cardinality(listing) <= 1
        /\ Cardinality(At({"search_products"})) <= 1
        /\ Cardinality(At({"search_products_text"})) <= 1
        /\ \A i \in article : \A j \in hybrid \cup listing : i < j
        /\ \A i \in hybrid : \A j \in listing : i < j
        /\ \A i \in article : calls[i].res = "rows" => hybrid \cup listing = {}
        /\ \A i \in hybrid : calls[i].res = "rows" => listing = {}

\* a finished turn whose article search returned products and that went on
\* to the generated answer
C18_Witness ==
    /\ stage = "done" /\ resp.status = 200 /\ resp.answer = "generated"
    /\ \E i \in 1..Len(calls) : calls[i] = [fn |-> "searchProductsByArticles", res |-> "rows"]

\* C19: an article search that failed, a hybrid search whose text-only retry
\* failed, or a plain listing that failed is the last call of the turn, and
\* the turn is over with a 502 response
C19_RetrievalErrorsSurfaced ==
    \A i \in 1..Len(calls) :
       (/\ calls[i].fn \in {"searchProductsByArticles", "search_products_text",
                            "get_all_products"}
        /\ calls[i].res = "err")
          => (i = Len(calls) /\ stage = "done" /\ resp.status = 502)

\* the trait value v of a product is a value, and some product of the
\* profile carries the same value in lower case under key
OnProfile(v, key) ==
    /\ v # Absent /\ Norm(v) # ""
    /\ \E i \in 1..Len(behavior) :
          behavior[i][key] # Absent /\ Norm(behavior[i][key]) = Norm(v)

\* C28: the score of every candidate is 4 for its type, 3 for its brand, 2
\* for its color and 1 for its series, each counted only when the candidate
\* has a value for the trait and that value occurs on a profile product
C28_ScoreIsWeightedTraitMatch ==
    ranked.done =>
       \A i \in 1..Len(cands) :
          ScoreOf(cands[i]) =
               (IF OnProfile(cands[i].meta.type, "type") THEN 4 ELSE 0)
             + (IF OnProfile(cands[i].meta.brand, "brand") THEN 3 ELSE 0)
             + (IF OnProfile(cands[i].meta.color, "color") THEN 2 ELSE 0)
             + (IF OnProfile(cands[i].meta.series, "series") THEN 1 ELSE 0)

\* ------------------------------------------------------------------------
\* TelegramWebhook: the dispatch switch in front of the debouncer
\* ------------------------------------------------------------------------
\* the messages of the webhook: msg.Text, and whether the message carries a
\* voice, a document or a photo
HookMessages == [text : {<<>>, <<SP>>, <<LetterLow>>, <<SP, LetterLow>>}, media : BOOLEAN]

\* the switch that tests the text for "" only
WebhookRoute_untrimmed(msg) ==
    CASE msg.text # <<>> -> "text"
      [] msg.media -> "media"
      [] OTHER -> "ignored"

\* the dispatch switch of TelegramWebhook
WebhookRoute(msg) ==
    CASE TrimSpace(msg.text) # <<>> -> "text"
      [] msg.media -> "media"
      [] OTHER -> "ignored"

WInit ==
    /\ sessions = [s \in Sessions |-> NoBuf]
    /\ mu = FreeMu
    /\ pc = [c \in Callers |-> "idle"]
    /\ arg = [c \in Callers |-> NoArg]
    /\ pend = [c \in Callers |-> NoPending]
    /\ flushWait = [s \in Sessions |-> 0]
    /\ running = EmptyBag
    /\ delivered = [id \in Items |-> 0]
    /\ nextId = 1
    /\ lastAdd = [s \in Sessions |-> NoLast]
    /\ scope = "hook"
    /\ EscalationIdle
    /\ PipelineIdle
    /\ RankIdle
    /\ HelperIdle
    /\ RelayIdle

\* TelegramWebhook serves one message: enqueueTelegramText, enqueueTelegramMedia
\* or nothing; arg keeps what the goroutine did with its last message
Webhook(c, s, u, msg) ==
    /\ pc[c] = "idle"
    /\ Admits(c, s)
    /\ IF WebhookRoute(msg) = "ignored"
       THEN /\ arg' = [arg EXCEPT ![c] = [kind |-> "ignored", s |-> s, id |-> 0, userID |-> u]]
            /\ UNCHANGED <<pc, nextId>>
       ELSE /\ arg' = [arg EXCEPT ![c] = [kind |-> WebhookRoute(msg), s |-> s, id |-> nextId,
                                          userID |-> u]]
            /\ pc' = [pc EXCEPT ![c] = "lock"]
            /\ nextId' = nextId + 1
    /\ UNCHANGED <<sessions, mu, pend, flushWait, running, delivered, lastAdd, scope, evars, pvars, rvars, fvars, mvars>>

WNext ==
    \/ \E c \in Callers, s \in Sessions, u \in UserIDs, msg \in HookMessages : Webhook(c, s, u, msg)
    \/ \E c \in Callers : AddLock(c)
    \/ \E c \in Callers : AddTextBody(c)
    \/ \E c \in Callers : AddMediaBody(c)
    \/ \E c \in Callers : AddCallback(c)
    \/ \E s \in Sessions : TimerFire(s)
    \/ \E s \in Sessions : FlushLock(s)
    \/ \E s \in Sessions : FlushBody(s)
    \/ \E e \in BagToSet(running) : FlushCallback(e)
    \/ Tick

WebhookSpec == WInit /\ [][WNext]_vars

C25_RelayedNotRepersisted ==
    /\ \A i \in 1..Len(rows) :
          /\ req.session
          /\ req.relay => rows[i].roles = <<"assistant">>
          /\ ~req.relay => rows[i].roles \in {<<"user">>, <<"user", "assistant">>}
    /\ (stage = "done" /\ resp.status = 200 /\ req.session) =>
          IF \E i \in 1..Len(calls) : calls[i] = [fn |-> "fetchHumanMode", res |-> "true"]
          THEN \/ req.relay /\ rows = <<>>
               \/ ~req.relay /\ Len(rows) = 1 /\ rows[1].roles = <<"user">>
          ELSE /\ Len(rows) = 1
               /\ rows[1].roles = (IF req.relay THEN <<"assistant">>
                                   ELSE <<"user", "assistant">>)

\* a relayed turn that returned the quote document and inserted the
\* assistant row alone
C25_Witness ==
    /\ stage = "done" /\ req.relay /\ resp.kind = "pdf"
    /\ Len(rows) = 1 /\ rows[1].roles = <<"assistant">>

\* C22: a finished turn whose answer generation returned an empty text or
\* failed answers 200 with the canned clarifying phrase, and with a session
\* id its rows were inserted
C22_FallbackOnEmptyOrFailed ==
    (/\ stage = "done"
     /\ \E i \in 1..Len(calls) :
           calls[i].fn = "callOpenAI" /\ calls[i].res \in {"empty", "err"})
       => /\ resp = [status |-> 200, kind |-> "json", answer |-> "fallback"]
          /\ req.session => (Len(rows) = 1 /\ rows[1].roles = TurnRows)

\* C23: the step that inserts the rows of a turn writes the response its
\* path had computed before, whatever the insert returns; a failed
\* ensureChatSession and the history read never end the turn
C23_PersistenceNeverAffectsResponse ==
    [][/\ Len(rows') > Len(rows) =>
             /\ stage' = "done"
             /\ resp' = CASE stage = "handoff" -> [status |-> 200, kind |-> "json", answer |-> ""]
                          [] stage = "ping" -> [status |-> 200, kind |-> "json", answer |-> "ping"]
                          [] stage = "assort" ->
                                [status |-> 200, kind |-> "json", answer |-> "assortment"]
                          [] stage = "quote" -> [status |-> 200, kind |-> "pdf", answer |-> "KP.pdf"]
                          [] stage = "persist" ->
                                [status |-> 200, kind |-> "json", answer |-> loc.answer]
       /\ stage \in {"ensure", "history"} => (stage' # "done" /\ resp' = NoResp)]_vars

\* a turn that went on after a failed ensureChatSession and returned the
\* generated answer although the insert of its rows failed
C23_Witness ==
    /\ stage = "done" /\ resp = [status |-> 200, kind |-> "json", answer |-> "generated"]
    /\ calls[1] = [fn |-> "ensureChatSession", res |-> "err"]
    /\ Len(rows) = 1 /\ ~rows[1].ok

\* ------------------------------------------------------------------------
\* Retrieval helpers: searchProductsByArticles (search.go),
\* FallbackProductsFromBehavior (personalization.go), generateQuotePDF
\* (quote.go)

MaxArticles == 2      \* article strings handed to searchProductsByArticles
MaxListLen == 2       \* products in one list of a behavior profile
NumIds == 2           \* product ids occurring in a behavior profile

\* limit <= 0 is replaced by 5 in both helpers
DefaultLimit == 5
\* rows asked of fetchProductsByArticle in pass one and in pass two
PassOneFetch == 1
PassTwoFetch == 5
\* normalizeArticles drops strings shorter than this
MinArticleLen == 3

\* a character without upper and lower case
Digit == 5

Ran(q) == {q[i] : i \in DOMAIN q}

NoDup(q) == \A i, j \in DOMAIN q : q[i] = q[j] => i = j

\* strings.ToUpper
ToUpper(str) == [i \in 1..Len(str) |-> IF str[i] = LetterLow THEN LetterUp ELSE str[i]]

RECURSIVE normalizeFrom(_, _)
\* the loop of normalizeArticles
normalizeFrom(in, out) ==
    IF in = <<>> THEN out
    ELSE LET a == ToUpper(TrimSpace(Head(in)))
         IN  normalizeFrom(Tail(in),
                IF a = <<>> \/ Len(a) < MinArticleLen \/ a \in Ran(out) THEN out
                ELSE Append(out, a))

normalizeArticles(in) == normalizeFrom(in, <<>>)

RECURSIVE Descending(_)
\* order=id.desc
Descending(ids) ==
    IF ids = {} THEN <<>>
    ELSE LET m == CHOOSE x \in ids : \A y \in ids : y <= x
         IN  <<m>> \o Descending(ids \ {m})

\* the ids of the products whose article is ilike %article%
Matching(catalog, article) ==
    {id \in DOMAIN catalog : Contains(ToLower(catalog[id]), ToLower(article))}

\* fetchProductsByArticle: the newest n products matching the article
fetchProductsByArticle(catalog, article, n) ==
    LET all == Descending(Matching(catalog, article))
    IN  SubSeq(all, 1, Min(IF n <= 0 THEN 1 ELSE n, Len(all)))

RECURSIVE AppendAll(_, _, _, _)
\* the inner loop without the test of seen
AppendAll(out, fetched, limit, capped) ==
    IF fetched = <<>> THEN out
    ELSE LET nxt == Append(out, Head(fetched))
         IN  IF capped /\ Len(nxt) >= limit THEN nxt
             ELSE AppendAll(nxt, Tail(fetched), limit, capped)

RECURSIVE AppendUnseen(_, _, _, _)
\* the inner loop of both passes: rows not seen before are appended; pass
\* two (capped) leaves the loop when the list is full
AppendUnseen(out, fetched, limit, capped) ==
    IF fetched = <<>> THEN out
    ELSE IF Head(fetched) \in Ran(out) THEN AppendUnseen(out, Tail(fetched), limit, capped)
    ELSE LET nxt == Append(out, Head(fetched))
         IN  IF capped /\ Len(nxt) >= limit THEN nxt
             ELSE AppendUnseen(nxt, Tail(fetched), limit, capped)

RECURSIVE Pass(_, _, _, _, _, _, _)
\* one pass over the normalized articles; the fetch of an article in bad
\* returns an error, which ends the search
Pass(catalog, arts, out, limit, bad, n, capped) ==
    IF arts = <<>> \/ Len(out) >= limit THEN [out |-> out, err |-> FALSE]
    ELSE IF Head(arts) \in bad THEN [out |-> <<>>, err |-> TRUE]
    ELSE Pass(catalog, Tail(arts),
              AppendUnseen(out, fetchProductsByArticle(catalog, Head(arts), n), limit, capped),
              limit, bad, n, capped)

\* searchProductsByArticles; first is the list after pass one, second
\* tells whether pass two ran
searchProductsByArticles(catalog, articles, lim, bad) ==
    LET limit == IF lim <= 0 THEN DefaultLimit ELSE lim
        normalized == normalizeArticles(articles)
        one == Pass(catalog, normalized, <<>>, limit, bad, PassOneFetch, FALSE)
        two == Pass(catalog, normalized, one.out, limit, bad, PassTwoFetch, TRUE)
    IN  IF normalized = <<>>
        THEN [fn |-> "search", out |-> <<>>, err |-> FALSE, first |-> <<>>, second |-> FALSE]
        ELSE IF one.err
        THEN [fn |-> "search", out |-> <<>>, err |-> TRUE, first |-> <<>>, second |-> FALSE]
        ELSE IF Len(one.out) < limit
        THEN [fn |-> "search", out |-> two.out, err |-> two.err, first |-> one.out,
              second |-> TRUE]
        ELSE [fn |-> "search", out |-> one.out, err |-> FALSE, first |-> one.out,
              second |-> FALSE]

RECURSIVE add(_, _, _)
\* the closure add of FallbackProductsFromBehavior
add(out, items, limit) ==
    IF items = <<>> \/ Len(out) >= limit THEN out
    ELSE IF Head(items) <= 0 \/ Head(items) \in Ran(out) THEN add(out, Tail(items), limit)
    ELSE add(Append(out, Head(items)), Tail(items), limit)

\* the lists taken in another order
FallbackProductsFromBehavior_viewedFirst(bh, lim) ==
    LET limit == IF lim <= 0 THEN DefaultLimit ELSE lim
    IN  add(add(add(add(<<>>, bh.viewed, limit), bh.cart, limit), bh.favorites, limit),
            bh.orders, limit)

\* FallbackProductsFromBehavior of a profile that is not nil; a product is
\* written as its id
FallbackProductsFromBehavior(bh, lim) ==
    LET limit == IF lim <= 0 THEN DefaultLimit ELSE lim
    IN  add(add(add(add(<<>>, bh.cart, limit), bh.favorites, limit), bh.orders, limit),
            bh.viewed, limit)

\* metadata["price"] of a product: no key, a string that is no number, or
\* a number (float64 or a string holding one) written in tenths
NoPrice == [kind |-> "none", tenths |-> 0]
BadPrice == [kind |-> "text", tenths |-> 0]
Number(t) == [kind |-> "number", tenths |-> t]
PriceValues == {NoPrice, BadPrice} \cup {Number(t) : t \in {-10, 0, 5, 10, 25}}

\* int64(f): the fraction is dropped, towards zero
Truncate(tenths) == IF tenths >= 0 THEN tenths \div 10 ELSE -((-tenths) \div 10)

\* extractProductPrice rounding up instead of dropping the fraction
extractProductPrice_ceil(price) ==
    IF price.kind = "number" THEN Truncate(price.tenths + 9) ELSE 0

\* extractProductPrice
extractProductPrice(price) ==
    IF price.kind = "number" THEN Truncate(price.tenths) ELSE 0

RECURSIVE QuoteItems(_)
\* the loop of generateQuotePDF: one item per product with a price above 0
QuoteItems(products) ==
    IF products = <<>> THEN <<>>
    ELSE LET price == extractProductPrice(Head(products))
         IN  IF price <= 0 THEN QuoteItems(Tail(products))
             ELSE <<[qty |-> 1, unit |-> price, line |-> price]>> \o QuoteItems(Tail(products))

RECURSIVE SumLines(_)
SumLines(items) == IF items = <<>> THEN 0 ELSE Head(items).line + SumLines(Tail(items))

NoQuote == [items |-> <<>>, discountPercent |-> 0, discountAmount |-> 0, subtotal |-> 0,
            total |-> 0]

\* generateQuotePDF; quote is the value handed to the PDF generator, whose
\* Generate succeeds (genOK) or returns an error
generateQuotePDF(products, genOK) ==
    LET items == QuoteItems(products)
        subtotal == SumLines(items)
    IN  IF items = <<>>
        THEN [fn |-> "quote", ok |-> FALSE, err |-> "no products for quote", quote |-> NoQuote]
        ELSE [fn |-> "quote", ok |-> genOK, err |-> IF genOK THEN "" ELSE "generate",
              quote |-> [items |-> items, discountPercent |-> 0, discountAmount |-> 0,
                         subtotal |-> subtotal, total |-> subtotal]]

\* the article strings of a request and the article column of the catalog
RawArticles ==
    {<<LetterLow, LetterLow, Digit>>, <<SP, LetterUp, LetterUp, Digit>>,
     <<LetterUp, LetterUp, Digit, Digit>>, <<LetterUp, Digit>>, <<SP, SP, SP>>}
CatalogArticles ==
    {<<>>, <<LetterLow, LetterLow, Digit>>, <<LetterUp, LetterUp, Digit, Digit>>,
     <<LetterUp, Digit>>}

SeqsUpTo(S, n) == UNION {[1..k -> S] : k \in 0..n}

\* the lists of a profile as FetchBehavior builds them: products with
\* positive ids, no product twice in one list, not all four lists empty
BehaviorLists == {q \in SeqsUpTo(1..NumIds, MaxListLen) : NoDup(q)}
Profiles ==
    {b \in [cart : BehaviorLists, favorites : BehaviorLists, orders : BehaviorLists,
             viewed : BehaviorLists] :
        b.cart \o b.favorites \o b.orders \o b.viewed # <<>>}

\* matchCount after handleMessage's clamp is at least 1
Limits == 1..MaxProducts

HInit ==
    /\ DebouncerIdle
    /\ EscalationIdle
    /\ PipelineIdle
    /\ RankIdle
    /\ RelayIdle
    /\ result = NoCall
    /\ \/ \E c \in [1..MaxProducts -> CatalogArticles], a \in SeqsUpTo(RawArticles, MaxArticles),
              l \in Limits :
             args = [fn |-> "search", catalog |-> c, articles |-> a, limit |-> l]
       \/ \E b \in Profiles, l \in Limits :
             args = [fn |-> "fallback", behavior |-> b, limit |-> l]
       \/ \E ps \in SeqsUpTo(PriceValues, MaxProducts) :
             args = [fn |-> "quote", products |-> ps]

\* one call of searchProductsByArticles
SearchArticles(bad) ==
    /\ args.fn = "search" /\ result = NoCall
    /\ result' = searchProductsByArticles(args.catalog, args.articles, args.limit, bad)
    /\ UNCHANGED <<args, dvars, evars, pvars, rvars, mvars>>

\* one call of FallbackProductsFromBehavior
Fallback ==
    /\ args.fn = "fallback" /\ result = NoCall
    /\ result' = [fn |-> "fallback",
                  out |-> FallbackProductsFromBehavior(args.behavior, args.limit)]
    /\ UNCHANGED <<args, dvars, evars, pvars, rvars, mvars>>

\* one call of generateQuotePDF
GenerateQuote(genOK) ==
    /\ args.fn = "quote" /\ result = NoCall
    /\ result' = generateQuotePDF(args.products, genOK)
    /\ UNCHANGED <<args, dvars, evars, pvars, rvars, mvars>>

HNext ==
    \/ args.fn = "search" /\ \E bad \in SUBSET Ran(normalizeArticles(args.articles)) :
          SearchArticles(bad)
    \/ Fallback
    \/ \E genOK \in BOOLEAN : GenerateQuote(genOK)

HelperSpec == HInit /\ [][HNext]_vars

\* the newest product matching an article
Newest(catalog, article) == CHOOSE x \in Matching(catalog, article) :
                               \A y \in Matching(catalog, article) : y <= x

\* C27: a search that returns without error returns no product id twice and
\* at most limit products; the list after pass one holds, for each of its
\* entries, the newest match of one normalized article, and no more entries
\* than there are normalized articles; pass two runs exactly when the list
\* is not full after pass one, keeps what pass one found and adds matches
\* of the articles until the list is full or holds every row the fetches of
\* pass two return
C27_ArticleSearchBounded ==
    (args.fn = "search" /\ result # NoCall /\ ~result.err) =>
        LET norm == Ran(normalizeArticles(args.articles))
            hits == UNION {Matching(args.catalog, a) : a \in norm}
            top == UNION {Ran(fetchProductsByArticle(args.catalog, a, PassTwoFetch)) :
                             a \in norm}
        IN  /\ NoDup(result.out)
            /\ Len(result.out) <= args.limit
            /\ Len(result.first) <= Cardinality(norm)
            /\ \A i \in DOMAIN result.first :
                  \E a \in norm : /\ Matching(args.catalog, a) # {}
                                  /\ result.first[i] = Newest(args.catalog, a)
            /\ result.second <=> (norm # {} /\ Len(result.first) < args.limit)
            /\ Len(result.first) <= Len(result.out)
            /\ SubSeq(result.out, 1, Len(result.first)) = result.first
            /\ result.second =>
                  /\ Ran(result.out) \subseteq hits
                  /\ Len(result.out) = args.limit \/ top \subseteq Ran(result.out)
            /\ ~result.second => result.out = result.first

\* two normalized articles whose newest match is the same product: pass one
\* kept it once and pass two filled the list up to the limit
C27_Witness ==
    /\ args.fn = "search" /\ result # NoCall /\ ~result.err
    /\ Len(normalizeArticles(args.articles)) = 2
    /\ Len(result.first) = 1
    /\ result.second
    /\ Len(result.out) = 3 /\ args.limit = 3

\* the four lists of a profile one after the other
Concatenated(bh) == bh.cart \o bh.favorites \o bh.orders \o bh.viewed

\* C29: the list FallbackProductsFromBehavior returns for a profile is the
\* concatenation cart, favorites, orders, recently viewed without the later
\* occurrences of an id, cut after limit entries
C29_FallbackOrder ==
    (args.fn = "fallback" /\ result # NoCall) =>
        LET all == Concatenated(args.behavior)
            firsts == {i \in DOMAIN all : \A j \in 1..(i - 1) : all[j] # all[i]}
        IN  /\ NoDup(result.out)
            /\ Len(result.out) = Min(args.limit, Cardinality(firsts))
            /\ \A k \in DOMAIN result.out :
                  \E i \in firsts : /\ all[i] = result.out[k]
                                    /\ Cardinality({j \in firsts : j < i}) = k - 1

\* a profile with an empty cart and a product in two of its lists, cut at
\* the limit
C29_Witness ==
    /\ args.fn = "fallback" /\ result # NoCall
    /\ args.behavior.cart = <<>>
    /\ Len(Concatenated(args.behavior)) > Cardinality(Ran(Concatenated(args.behavior)))
    /\ Len(result.out) = args.limit
    /\ args.limit < Cardinality(Ran(Concatenated(args.behavior)))

\* the products of a call with a price of one whole unit or more
Priced(products) ==
    {i \in DOMAIN products : products[i].kind = "number" /\ products[i].tenths >= 10}

OfferRow(role, offer) == [role |-> role, kpOffer |-> offer]

\* hasKPOffered: some row of the history carries kp_offer = true
hasKPOffered(h) == \E i \in DOMAIN h : h[i].kpOffer

\* hasRecentKPOffer: the newest assistant row of the history carries it
hasRecentKPOffer(h) ==
    LET idx == {i \in DOMAIN h : h[i].role = "assistant"}
    IN  idx # {} /\ h[CHOOSE i \in idx : \A j \in idx : j <= i].kpOffer

\* the messages of a turn: the lone word "да" (affirmative, one word, none
\* of the quote keywords), a message with a quote keyword, any other
MessageKinds == {"yes", "keyword", "other"}

\* detectKpIntent
detectKpIntent(kind, h) == kind = "keyword" \/ (hasRecentKPOffer(h) /\ kind = "yes")

\* the products a turn ends up with: none, one without a price, one priced
\* below one unit, one priced
TurnProducts == {<<>>, <<NoPrice>>, <<Number(5)>>, <<Number(25)>>}

\* the rows already stored when the modelled turns begin: plain user rows
OfferPriors == {0, HistoryLimit - 1}

NoTurn == [fn |-> "turn", n |-> 0, kind |-> "other", products |-> <<>>]

OInit ==
    /\ DebouncerIdle
    /\ PipelineIdle
    /\ RankIdle
    /\ RelayIdle
    /\ now = 0
    /\ token = TRUE
    /\ turn = [t \in 1..NumSlots |-> IdleTurn]
    /\ started = 0
    /\ timers = EmptyBag
    /\ sent = <<>>
    /\ prior \in OfferPriors
    /\ msgs = <<>>
    /\ args = NoTurn
    /\ result = NoCall

\* one turn of the session from the history read to the response, with the
\* other stages succeeding: histOK tells whether ensureChatSession and
\* fetchChatHistory both succeeded, insOK whether the insert of the rows did
QuoteTurn(kind, products, histOK, insOK) ==
    LET history == IF histOK THEN fetchChatHistory(HistoryLimit) ELSE <<>>
        userWantsQuote == detectKpIntent(kind, history)
        pdf == generateQuotePDF(products, TRUE)
        offerKp == products # <<>> /\ ~userWantsQuote /\ ~hasKPOffered(history)
        stored == <<OfferRow("user", FALSE)>>
    IN  /\ args.fn = "turn" /\ args.n < MaxTurns
        /\ args' = [fn |-> "turn", n |-> args.n + 1, kind |-> kind, products |-> products]
        /\ IF userWantsQuote /\ products # <<>>
           THEN IF ~pdf.ok
                THEN /\ result' = [fn |-> "turn", quote |-> TRUE, offer |-> FALSE,
                                   status |-> 502, kind |-> "text"]
                     /\ msgs' = msgs
                ELSE /\ result' = [fn |-> "turn", quote |-> TRUE, offer |-> FALSE,
                                   status |-> 200, kind |-> "pdf"]
                     /\ msgs' = IF insOK
                                THEN msgs \o stored \o <<OfferRow("assistant", FALSE)>>
                                ELSE msgs
           ELSE /\ result' = [fn |-> "turn", quote |-> userWantsQuote, offer |-> offerKp,
                              status |-> 200, kind |-> "json"]
                /\ msgs' = IF insOK
                           THEN msgs \o stored \o <<OfferRow("assistant", offerKp)>>
                           ELSE msgs
        /\ UNCHANGED <<now, token, prior, turn, started, timers, sent, dvars, pvars, rvars, mvars>>

ONext ==
    \E kind \in MessageKinds, products \in TurnProducts, histOK \in BOOLEAN, insOK \in BOOLEAN :
        QuoteTurn(kind, products, histOK, insOK)

OfferSpec == OInit /\ [][ONext]_vars

\* the newest assistant row stored for the session carries kp_offer = true
LastAssistantOffers ==
    LET idx == {i \in DOMAIN msgs : msgs[i].role = "assistant"}
    IN  idx # {} /\ msgs[CHOOSE i \in idx : \A j \in idx : j <= i].kpOffer

\* C21: a turn with the message "да" after a stored offer has quote intent,
\* answers with the quote document if one of its products is priced and
\* with a JSON answer otherwise
C21_YesAfterOfferQuotes ==
    [][(args'.n = args.n + 1 /\ args'.kind = "yes" /\ LastAssistantOffers) =>
          /\ result'.quote
          /\ result'.status = 200
          /\ result'.kind = IF Priced(args'.products) # {} THEN "pdf" ELSE "json"]_vars

\* C24: a turn appends the offer only if no stored assistant row of the
\* session carries kp_offer = true, the turn has products and no quote intent
C24_OfferOnlyOnce ==
    [][(args'.n = args.n + 1 /\ result'.offer) =>
          /\ ~hasKPOffered(msgs)
          /\ args'.products # <<>>
          /\ ~result'.quote]_vars

\* C31: loadProductsFromHistory is called only in a turn with product need,
\* and a turn without product need has no products: none ranked, none in
\* the finished turn
C31_ReuseOnlyWithProductNeed ==
    /\ "loadProductsFromHistory" \in Called => loc.need
    /\ ("decideProductSearch" \in Called /\ ~loc.need) =>
          /\ loc.products = 0
          /\ "rankProductsByBehavior" \notin Called

\* the collaborators of answer generation
GenerationCalls ==
    {"match_sales_knowledge", "fetchEscalationRule", "callOpenAI", "summarizeHistory"}

\* C32: a finished turn that entered the quote branch (quote intent and at
\* least one product) made none of the calls of answer generation, answers
\* with the document and, on a session, inserted its rows
C32_QuotePathReturnsDocument ==
    (stage = "done" /\ "generateQuotePDF" \in Called) =>
        /\ Called \cap GenerationCalls = {}
        /\ resp = [status |-> 200, kind |-> "pdf", answer |-> "KP.pdf"]
        /\ req.session => (Len(rows) = 1 /\ rows[1].roles = TurnRows)

\* ------------------------------------------------------------------------
\* Further observations on the debouncer
\* ------------------------------------------------------------------------

\* C33: a timer goroutine detaches a buffer only when telegramIdleWindow has
\* passed since the last AddText/AddMedia of the session
C33_FlushOnlyAfterIdleWindow ==
    [][\A s \in Sessions :
          (FlushBody(s) /\ sessions[s].present)
              => lastAdd[s].ago >= telegramIdleWindow]_vars

\* C34: a buffer in the registry always has its idle timer running, due no
\* later than telegramMaxWait + telegramIdleWindow after the buffer's start,
\* or expired with its goroutine on the way to detach the buffer
C34_BoundedBufferingDelay ==
    \A s \in Sessions :
        sessions[s].present =>
            \/ /\ sessions[s].timer.st = "armed"
               /\ sessions[s].age + sessions[s].timer.left
                      <= telegramMaxWait + telegramIdleWindow
               /\ sessions[s].age < telegramMaxWait \/ sessions[s].timer.left = 0
            \/ /\ sessions[s].timer.st = "fired"
               /\ flushWait[s] > 0 \/ mu = <<"flush", s>>

\* a buffer holding a media item whose idle timer is due at the cap or later
C34_Witness ==
    \E s \in Sessions :
        /\ sessions[s].present /\ sessions[s].timer.st = "armed"
        /\ sessions[s].pending.media # 0
        /\ sessions[s].age + sessions[s].timer.left >= telegramMaxWait

\* the flush callbacks of session s that are executing: in timer goroutines
\* and in callers of AddText/AddMedia
Executing(s) ==
    LET inTimers == {e \in BagToSet(running) : e.p.sessionID = s}
        timerCount == IF inTimers = {} THEN 0
                      ELSE BagCardinality([e \in inTimers |-> CopiesIn(e, running)])
    IN  timerCount + Cardinality({c \in Callers : pc[c] = "cb" /\ pend[c].sessionID = s})

\* C35: at most one flush callback of a session is executing at any time
C35_OneCallbackPerSession == \A s \in Sessions : Executing(s) <= 1

\* ------------------------------------------------------------------------
\* Further observations on the escalation state machine
\* ------------------------------------------------------------------------

\* no webhook call was made; the turns of the session run one at a time
DebouncerInactive ==
    /\ sessions = [s \in Sessions |-> NoBuf]
    /\ mu = FreeMu
    /\ pc = [c \in Callers |-> "idle"]
    /\ arg = [c \in Callers |-> NoArg]
    /\ pend = [c \in Callers |-> NoPending]
    /\ flushWait = [s \in Sessions |-> 0]
    /\ running = EmptyBag
    /\ delivered = [id \in Items |-> 0]
    /\ nextId = 1
    /\ lastAdd = [s \in Sessions |-> NoLast]
    /\ scope = "serial"

\* the time up to the whole second one minute after the last whole second
\* passes: a minute less the fraction of a second the clock is at
TickShort ==
    /\ now % TicksPerSecond # 0
    /\ now + MinuteTicks <= MaxMinutes * MinuteTicks + SubSteps
    /\ now' = now + MinuteTicks - (now % TicksPerSecond)
    /\ UNCHANGED <<token, prior, msgs, turn, started, timers, sent, dvars, pvars, rvars, fvars, mvars>>

\* the session whose turns come one after the other, with its delayed
\* director checks, on a clock that also stops at whole seconds
OrderInit ==
    /\ DebouncerInactive
    /\ now = 0
    /\ token \in BOOLEAN
    /\ prior \in PriorChoices
    /\ msgs = <<>>
    /\ turn = [t \in Slots |-> IdleTurn]
    /\ started = 0
    /\ timers = EmptyBag
    /\ sent = <<>>
    /\ PipelineIdle
    /\ RankIdle
    /\ HelperIdle
    /\ RelayIdle

OrderNext ==
    \/ SNext
    \/ \E k \in BagToSet(timers), histOK \in BOOLEAN, net \in Nets :
          DirectorCheck(k, histOK, net)
    \/ TickMinute
    \/ TickShort

OrderSpec == OrderInit /\ [][OrderNext]_vars

\* the escalation states the turns in flight computed and the stored ones
KnownStates ==
    {turn[t].res[1].state : t \in {u \in Slots : turn[u].pc = "persist" /\ turn[u].ruled}}
        \cup {msgs[i].esc.st : i \in {j \in 1..Len(msgs) : msgs[j].esc.has}}

HoldsNewestRows(h) ==
    /\ Len(h) <= Len(msgs)
    /\ h = SubSeq(msgs, Len(msgs) - Len(h) + 1, Len(msgs))
    /\ msgs # <<>> => h # <<>>

\* C37: the history a turn reads, and the history the delayed director check
\* reads, holds the newest stored rows of the session whenever the read
\* succeeds
C37_HistoryHoldsNewestRows ==
    [][/\ \A t \in Slots :
             TurnRead(t, TRUE) => HoldsNewestRows(turn'[t].hist)
       /\ \A k \in BagToSet(timers), net \in Nets :
             DirectorCheck(k, TRUE, net)
                => HoldsNewestRows(fetchChatHistory(DirectorHistoryLimit))]_vars

\* the calls whose failure ends the turn with a failure response
FailingCalls == {"handleAssortmentQuery", "getEmbedding", "search_products_text",
                 "get_all_products", "generateQuotePDF", "match_sales_knowledge",
                 "callOpenAI"}

\* C38: a turn that ended in a failure response issued no insert and ran no
\* escalation check, and its last call is the one that failed; a turn that
\* issued an insert ended in a successful response
C38_FailureWritesNothing ==
    /\ (stage = "done" /\ resp.status = 502)
          => /\ rows = <<>>
             /\ "maybeEscalate" \notin Called
             /\ calls # <<>>
             /\ calls[Len(calls)].res = "err"
             /\ calls[Len(calls)].fn \in FailingCalls
    /\ rows # <<>> => (stage = "done" /\ resp.status = 200 /\ Len(rows) = 1)

\* a turn on a session with an escalation rule found ended in the failure of
\* the answer generation
C38_Witness ==
    /\ stage = "done"
    /\ resp.status = 502
    /\ req.session
    /\ loc.rule
    /\ calls[Len(calls)] = [fn |-> "callOpenAI", res |-> "err"]

\* ------------------------------------------------------------------------
\* Manager relay: the goroutine of startManagerRelay polling chat_messages
\* for manager rows and forwarding them to the channel
\* ------------------------------------------------------------------------
\* the rows the model stores
MaxRelayRows == 3

\* fetchManagerMessagesSince asks for 100 rows, fetchLatestManagerMessageID for 1
RelayLimit == 100
LatestLimit == 1

\* message contents: a text, white space, nothing
RelayContents == {<<LetterLow>>, <<SP>>, <<>>}

\* strings.HasPrefix
HasPrefix(str, prefix) ==
    /\ Len(str) >= Len(prefix)
    /\ SubSeq(str, 1, Len(prefix)) = prefix

\* the first n elements of a sequence
FirstN(q, n) == SubSeq(q, 1, Min(n, Len(q)))

\* a sequence in reverse order
Reverse(q) == [i \in 1..Len(q) |-> q[Len(q) + 1 - i]]

\* the rows of a sequence that satisfy the filter id > last
RowsAbove(q, last) == SelectSeq(q, LAMBDA m : m.ID > last)

\* fetchManagerMessages that never sends the id filter
fetchManagerMessages_nofilter(last, limit, desc) ==
    FirstN(IF desc THEN Reverse(table) ELSE table, limit)

\* fetchManagerMessages: the manager rows in id order (descending when
\* desc), with id > lastID when lastID > 0, at most limit of them
fetchManagerMessages(last, limit, desc) ==
    LET kept == IF last > 0 THEN RowsAbove(table, last) ELSE table
    IN  FirstN(IF desc THEN Reverse(kept) ELSE kept, limit)

\* a row is stored in chat_messages: a manager or human-admin row of a
\* session, or a row of another sender, which only takes an id
StoreRow(manager, s, content) ==
    /\ nextRowId <= MaxRelayRows
    /\ nextRowId' = nextRowId + 1
    /\ table' = IF manager
                THEN Append(table, [ID |-> nextRowId, SessionID |-> s, Content |-> content])
                ELSE table
    /\ UNCHANGED <<humanMode, lastID, relayPc, batch, forwards, polled,
                   dvars, evars, pvars, rvars, fvars>>

\* is_human_mode of a session is switched
SetHumanMode(s, on) ==
    /\ humanMode[s] # on
    /\ humanMode' = [humanMode EXCEPT ![s] = on]
    /\ UNCHANGED <<table, nextRowId, lastID, relayPc, batch, forwards, polled,
                   dvars, evars, pvars, rvars, fvars>>

\* startManagerRelay with the store and the bot configured: the goroutine
\* starts with fetchLatestManagerMessageID, whose failure leaves lastID 0
RelayStart(ok) ==
    /\ relayPc = "init"
    /\ LET msgs0 == fetchManagerMessages(0, LatestLimit, TRUE)
       IN  lastID' = IF ok /\ msgs0 # <<>> THEN msgs0[1].ID ELSE 0
    /\ relayPc' = "tick"
    /\ UNCHANGED <<table, nextRowId, humanMode, batch, forwards, polled,
                   dvars, evars, pvars, rvars, fvars>>

\* one tick of the ticker: fetchManagerMessagesSince(lastID); a failure is
\* logged and the loop goes on to the next tick
Poll(ok) ==
    /\ relayPc = "tick"
    /\ LET got == IF ok THEN fetchManagerMessages(lastID, RelayLimit, FALSE) ELSE <<>>
       IN  /\ batch' = got
           /\ polled' = polled \o [i \in 1..Len(got) |-> got[i].ID]
           /\ relayPc' = IF got = <<>> THEN "tick" ELSE "loop"
    /\ UNCHANGED <<table, nextRowId, humanMode, lastID, forwards,
                   dvars, evars, pvars, rvars, fvars>>

\* one round of the loop over the fetched rows: the row of a "tg:" session
\* with a text is forwarded when fetchSessionHumanMode says human mode (its
\* error reads as false); lastID moves up to the id of the row
Handle(modeOK) ==
    /\ relayPc = "loop"
    /\ LET m == Head(batch)
           mode == modeOK /\ humanMode[m.SessionID]
       IN  /\ forwards' = IF /\ HasPrefix(m.SessionID, <<"t", "g", ":">>)
                             /\ TrimSpace(m.Content) # <<>>
                             /\ mode
                          THEN Append(forwards, m)
                          ELSE forwards
           /\ lastID' = IF m.ID > lastID THEN m.ID ELSE lastID
    /\ batch' = Tail(batch)
    /\ relayPc' = IF Tail(batch) = <<>> THEN "tick" ELSE "loop"
    /\ UNCHANGED <<table, nextRowId, humanMode, polled, dvars, evars, pvars, rvars, fvars>>

\* Handlers.New: the relay is started when the store and the bot are
\* configured, else startManagerRelay returns at once
MInit ==
    /\ DebouncerIdle
    /\ EscalationIdle
    /\ PipelineIdle
    /\ RankIdle
    /\ HelperIdle
    /\ table = <<>>
    /\ nextRowId = 1
    /\ humanMode = [s \in RelaySessions |-> FALSE]
    /\ lastID = 0
    /\ relayPc \in {"off", "init"}
    /\ batch = <<>>
    /\ forwards = <<>>
    /\ polled = <<>>

MNext ==
    \/ \E manager \in BOOLEAN, s \in RelaySessions, content \in RelayContents :
          StoreRow(manager, s, content)
    \/ \E s \in RelaySessions, on \in BOOLEAN : SetHumanMode(s, on)
    \/ \E ok \in BOOLEAN : RelayStart(ok)
    \/ \E ok \in BOOLEAN : Poll(ok)
    \/ \E modeOK \in BOOLEAN : Handle(modeOK)

RelaySpec == MInit /\ [][MNext]_vars

\* C39: lastID never decreases; a poll returns only rows with an id above
\* lastID, and no id is returned by two polls; a row is forwarded at most
\* once, and only a row of a "tg:" session that is in human mode at that
\* moment; a failed poll changes neither lastID nor anything else of the loop
C39_RelayForwardsOnce ==
    [][/\ lastID' >= lastID
       /\ (relayPc = "tick" /\ batch' # <<>>)
             => \A i \in 1..Len(batch') : batch'[i].ID > lastID
       /\ NoDup(polled')
       /\ NoDup([i \in 1..Len(forwards') |-> forwards'[i].ID])
       /\ forwards' # forwards
             => /\ forwards' = Append(forwards, Head(batch))
                /\ HasPrefix(Head(batch).SessionID, <<"t", "g", ":">>)
                /\ humanMode[Head(batch).SessionID]
       /\ Poll(FALSE) => UNCHANGED <<lastID, batch, forwards, polled, relayPc>>]_vars

\* the relay forwarded a row, skipped another one, and a later poll came
\* back empty although the table holds rows
C39_Witness ==
    /\ relayPc = "tick"
    /\ forwards # <<>>
    /\ Len(polled) >= 2
    /\ lastID = table[Len(table)].ID
    /\ Len(forwards) < Len(polled)

\* ------------------------------------------------------------------------
\* CreateQuote: the quote document built from a request
\* ------------------------------------------------------------------------
\* the items of a request
MaxQuoteItems == 2

\* the decoder accepts any integers: quantities, unit prices and discount
\* percents of either sign
QuoteQtys == {-1, 0, 1, 2}
QuoteUnitPrices == {-5, 0, 7}
QuoteDiscounts == {-10, 0, 15, 100, 150}

\* Go's integer division, which truncates towards zero (b > 0)
GoDiv(a, b) == IF a >= 0 THEN a \div b ELSE -((-a) \div b)

\* the index of the first item with Qty <= 0, or 0
FirstBadQty(items) ==
    LET bad == {i \in 1..Len(items) : items[i].Qty <= 0}
    IN  IF bad = {} THEN 0 ELSE CHOOSE i \in bad : \A j \in bad : i <= j

RECURSIVE LineSum(_)
\* subtotal += line over the items
LineSum(lines) == IF lines = <<>> THEN 0 ELSE Head(lines) + LineSum(Tail(lines))

\* CreateQuote after the decoding: 400 at the first item with Qty <= 0, else
\* the quote with its lines and totals, written as a PDF (200) unless the
\* generator fails (500)
CreateQuote(items, discountPercent, genOK) ==
    IF FirstBadQty(items) # 0
    THEN [fn |-> "createQuote", status |-> 400, document |-> FALSE,
          lines |-> <<>>, Subtotal |-> 0, DiscountAmount |-> 0, Total |-> 0]
    ELSE LET lines == [i \in 1..Len(items) |-> items[i].UnitPrice * items[i].Qty]
             subtotal == LineSum(lines)
             discount == GoDiv(subtotal * discountPercent, 100)
         IN  [fn |-> "createQuote", status |-> IF genOK THEN 200 ELSE 500,
              document |-> genOK, lines |-> lines, Subtotal |-> subtotal,
              DiscountAmount |-> discount, Total |-> subtotal - discount]

\* a decoded request
CQInit ==
    /\ DebouncerIdle
    /\ EscalationIdle
    /\ PipelineIdle
    /\ RankIdle
    /\ RelayIdle
    /\ result = NoCall
    /\ \E items \in SeqsUpTo([Qty : QuoteQtys, UnitPrice : QuoteUnitPrices], MaxQuoteItems),
          d \in QuoteDiscounts :
          args = [fn |-> "createQuote", items |-> items, discount |-> d]

\* one call of the handler
CreateQuoteCall(genOK) ==
    /\ args.fn = "createQuote" /\ result = NoCall
    /\ result' = CreateQuote(args.items, args.discount, genOK)
    /\ UNCHANGED <<args, dvars, evars, pvars, rvars, mvars>>

CQNext == \E genOK \in BOOLEAN : CreateQuoteCall(genOK)

QuoteSpec == CQInit /\ [][CQNext]_vars

\* C40: a request with an item of quantity <= 0 is rejected without a
\* document; for any other request every line is unit price times quantity,
\* the subtotal is the sum of the lines, the discount is
\* subtotal * percent / 100 in integer arithmetic and 0 <= total <= subtotal
C40_QuoteArithmetic ==
    result.fn = "createQuote" =>
       IF \E i \in 1..Len(args.items) : args.items[i].Qty <= 0
       THEN result.status = 400 /\ ~result.document
       ELSE /\ result.status # 400
            /\ Len(result.lines) = Len(args.items)
            /\ \A i \in 1..Len(args.items) :
                  result.lines[i] = args.items[i].UnitPrice * args.items[i].Qty
            /\ result.Subtotal = LineSum(result.lines)
            /\ result.DiscountAmount = GoDiv(result.Subtotal * args.discount, 100)
            /\ result.Total = result.Subtotal - result.DiscountAmount
            /\ 0 <= result.Total
            /\ result.Total <= result.Subtotal
====
